---- MODULE Spec2Model ----
(***************************************************************************)
(* A model of ngen-cal's calibration core:                                 *)
(*   - hydrofabric schema detection          (ngen.py, NgenBase._hf_version)*)
(*   - calibration target construction       (ngen.py, Ngen* __init__)      *)
(*   - parameter mapping / config rewriting  (ngen.py, update_config)       *)
(*   - routing output extraction             (ngen_output.py, TrouteOutput) *)
(*   - routing timestep computation          (ngen_output.py)               *)
(* Each subsystem has its own variables and its own specification; the     *)
(* variables of the other subsystems stay at their idle values.            *)
(***************************************************************************)
EXTENDS Integers, Sequences, FiniteSets, TLC

VARIABLES
    gpkgTables,   \* names of the tables of the geopackage passed as `hydrofabric`
    hfResult,     \* outcome of NgenBase._hf_version on that geopackage
    load,         \* the construction of NgenBase: the keyword arguments, the realization file, the outcome
    rtInput,      \* [window_s, ngen_ts_s, routing_n_ts]: inputs of _routing_timestep_size_s
    rtResult,     \* outcome of _routing_timestep_size_s
    rtAxis,       \* the timestamp axis _csv_output_v1 builds, in seconds after start_time
    ngen,         \* the fields of the Ngen model being constructed: strategy, hydrofabric, eval_feature
    built,        \* outcome of the strategy's __init__: the adjustables, or the error raised
    forcing,      \* NgenIndependent's per-catchment forcing: the pattern, the directory, the paths chosen
    troute,       \* the TrouteOutput plugin: its files, settings, realization times, and the nexus asked for
    goResult,     \* outcome of TrouteOutput.get_output
    stream,       \* a text stream v2 file, the frame read from it, the last get_output(id) of its handler
    realization,  \* the in-memory ngen_realization: global and per-catchment formulation nodes
    params,       \* the parameter table handed to update_config
    workdir,      \* files on disk: the realization config file and the run's output files
    updResult,    \* outcome of the last update_config call
    iteration,    \* the calibration loop: iteration number, step, which run wrote the routing output
    restart,      \* Ngen.restart: what each adjustable's restart() returns, the calls made, the outcome
    namelist      \* an init-config file: its lines or control values, the object parsed, the text written back

hfVars == <<gpkgTables, hfResult, load>>
rtVars == <<rtInput, rtResult, rtAxis>>
targetVars == <<ngen, built, forcing>>
goVars == <<troute, goResult, stream>>
cfgVars == <<realization, params, workdir, updResult, iteration>>
startVars == <<restart, namelist>>
vars == <<hfVars, rtVars, targetVars, goVars, cfgVars, startVars>>

Unset == [kind |-> "unset"]
Pending == [kind |-> "pending"]
Return(v) == [kind |-> "return", value |-> v]
Raise(e) == [kind |-> "raise", error |-> e]

IdleHF == gpkgTables = {} /\ hfResult = Pending /\ load = Unset
IdleRT == rtInput = Unset /\ rtResult = Pending /\ rtAxis = Pending
IdleGO == troute = Unset /\ goResult = Pending /\ stream = Unset
IdleTargets == ngen = Unset /\ built = Pending /\ forcing = Unset
IdleCfg ==
    /\ realization = Unset /\ params = Unset /\ workdir = Unset /\ updResult = Pending
    /\ iteration = Unset
IdleStart == restart = Unset /\ namelist = Unset

(***************************************************************************)
(* Hydrofabric schema detection: NgenBase._hf_version                      *)
(***************************************************************************)

\* Table names a geopackage may hold.
FlowLikeTables ==
    {"flowpaths", "flowpath_attributes", "flowlines", "flowpath-attributes",
     "flowpath_edge_list", "Flowlines_old"}
OtherTables == {"divides", "nexus"}
TableNames == FlowLikeTables \cup OtherTables

\* SELECT name FROM sqlite_master WHERE type='table' AND name LIKE 'flow%'
\* (SQLite's LIKE ignores ASCII case, so 'Flowlines_old' matches as well).
FlowTablesQuery(tbls) == {t \in tbls : t \in FlowLikeTables}

\* A detector that accepts any table set containing a known pair.
HfVersionSuperset(tbls) ==
    LET values == FlowTablesQuery(tbls) IN
    IF Cardinality(values) < 2 THEN Raise("AssertionError")
    ELSE IF {"flowpaths", "flowpath_attributes"} \subseteq values THEN Return("HF_2_0")
    ELSE IF {"flowlines", "flowpath-attributes"} \subseteq values THEN Return("HF_2_1")
    ELSE IF {"flowpaths", "flowpath-attributes"} \subseteq values THEN Return("HF_2_2")
    ELSE Raise("KeyError")

_hf_version(tbls) ==
    LET values == FlowTablesQuery(tbls) IN
    IF ~(Cardinality(values) >= 2) THEN Raise("AssertionError")
    ELSE IF {"flowpaths", "flowpath_attributes"} = values THEN Return("HF_2_0")
    ELSE IF {"flowlines", "flowpath-attributes"} = values THEN Return("HF_2_1")
    ELSE IF {"flowpaths", "flowpath-attributes"} = values THEN Return("HF_2_2")
    ELSE Raise("KeyError")

InitHF ==
    /\ gpkgTables \in SUBSET TableNames
    /\ hfResult = Pending
    /\ load = Unset
    /\ IdleRT
    /\ IdleStart
    /\ IdleGO
    /\ IdleTargets
    /\ IdleCfg

\* NgenBase.__init__ with `hydrofabric` set: probe the schema generation.
DetectSchema ==
    /\ hfResult = Pending
    /\ hfResult' = _hf_version(gpkgTables)
    /\ UNCHANGED <<gpkgTables, load, rtVars, targetVars, goVars, cfgVars, startVars>>

NextHF == DetectSchema

SpecHF == InitHF /\ [][NextHF]_vars

KnownPairs ==
    {{"flowpaths", "flowpath_attributes"},
     {"flowlines", "flowpath-attributes"},
     {"flowpaths", "flowpath-attributes"}}

\* C7: detection returns 2.0 exactly for {flowpaths, flowpath_attributes}, 2.1 exactly
\* for {flowlines, flowpath-attributes}, 2.2 exactly for {flowpaths,
\* flowpath-attributes}, and raises for every other set of two or more 'flow' tables,
\* a superset of a known pair included.
C7_SchemaDetection ==
    hfResult # Pending =>
        LET values == FlowTablesQuery(gpkgTables) IN
        /\ (hfResult = Return("HF_2_0")) <=> (values = {"flowpaths", "flowpath_attributes"})
        /\ (hfResult = Return("HF_2_1")) <=> (values = {"flowlines", "flowpath-attributes"})
        /\ (hfResult = Return("HF_2_2")) <=> (values = {"flowpaths", "flowpath-attributes"})
        /\ (Cardinality(values) >= 2 /\ values \notin KnownPairs) => hfResult.kind = "raise"

\* C7 witness: a strict superset of a known pair was probed and rejected.
C7_Witness ==
    /\ hfResult.kind = "raise"
    /\ \E pair \in KnownPairs :
          pair \subseteq FlowTablesQuery(gpkgTables) /\ pair # FlowTablesQuery(gpkgTables)

\* C8: every detection failure, too few candidate tables or an unknown table set, is
\* raised as the one detection error type (the KeyError the docstring promises).
C8_OneDetectionErrorType ==
    hfResult.kind = "raise" => hfResult.error = "KeyError"

(***************************************************************************)
(* Routing timestep: _routing_timestep_size_s                              *)
(***************************************************************************)

MaxWindowHalfHours == 20   \* longest simulation window, in half hours
MaxRoutingRows == 40       \* most routing timesteps in an output file

OutputIntervals == {900, 1800, 3600}

RECURSIVE Gcd(_, _)
Gcd(a, b) == IF b = 0 THEN a ELSE Gcd(b, a % b)

RECURSIVE IsPowerOfTwo(_)
IsPowerOfTwo(n) == IF n = 1 THEN TRUE ELSE IF n % 2 # 0 THEN FALSE ELSE IsPowerOfTwo(n \div 2)

\* len(pd.date_range(start, end, freq=f"{step}s", inclusive="right")) for start < end:
\* the instants start + k*step, k >= 1, that are <= end.
DateRangeRightLen(window_s, step_s) == window_s \div step_s

\* Python's float divmod(x, n/d) for an int x and the float quotient of ints n, d > 0.
\* With n/d = a/b in lowest terms: when b is a power of two the quotient is exact and
\* the remainder is 0 iff a divides x*b; otherwise the rounded quotient is no divisor
\* of x and the remainder is non-zero.  Result: <<floor quotient, remainder is zero>>.
FloatDivmodByRatio(x, n, d) ==
    LET g == Gcd(n, d)
        a == n \div g
        b == d \div g
    IN  IF IsPowerOfTwo(b)
        THEN <<(x * b) \div a, (x * b) % a = 0>>
        ELSE <<(x * d) \div n, FALSE>>

_routing_timestep_size_s(routing_n_ts, window_s, ngen_ts_s) ==
    LET ngen_n_ts == DateRangeRightLen(window_s, ngen_ts_s) IN
    IF ngen_n_ts = 0 THEN Raise("ZeroDivisionError")        \* routing_n_ts / ngen_n_ts
    ELSE IF routing_n_ts = 0 THEN Raise("ZeroDivisionError") \* divmod(ngen_ts_s, 0.0)
    ELSE LET dm == FloatDivmodByRatio(ngen_ts_s, routing_n_ts, ngen_n_ts) IN
         IF ~dm[2] THEN Raise("AssertionError")
         ELSE Return(dm[1])

\* pd.date_range(start, end, freq=step, inclusive="right") for start < end, as seconds
\* after start: start + k*step for k >= 1, up to end.
DateRangeRight(window_s, step_s) == [k \in 1..(window_s \div step_s) |-> k * step_s]

\* The axis of _csv_output_v1: r_dt_range, built once the routing timestep is known.
CsvV1Axis(routing_ts, window_s) ==
    IF routing_ts.kind = "raise" THEN Pending
    ELSE IF routing_ts.value = 0 THEN Raise("ValueError")
    ELSE Return(DateRangeRight(window_s, routing_ts.value))

InitRT ==
    /\ rtInput \in [window_s : {h * 1800 : h \in 1..MaxWindowHalfHours},
                    ngen_ts_s : OutputIntervals,
                    routing_n_ts : 0..MaxRoutingRows]
    /\ rtResult = Pending
    /\ rtAxis = Pending
    /\ IdleHF
    /\ IdleStart
    /\ IdleGO
    /\ IdleTargets
    /\ IdleCfg

\* _csv_output_v1 on a text v1 file: the routing-native step, then the timestamp axis.
RoutingTimestep ==
    /\ rtResult = Pending
    /\ rtResult' = _routing_timestep_size_s(rtInput.routing_n_ts, rtInput.window_s, rtInput.ngen_ts_s)
    /\ rtAxis' = CsvV1Axis(rtResult', rtInput.window_s)
    /\ UNCHANGED <<rtInput, hfVars, startVars, targetVars, goVars, cfgVars>>

NextRT == RoutingTimestep

SpecRT == InitRT /\ [][NextRT]_vars

\* C10: whenever _routing_timestep_size_s returns, the returned routing-native step
\* evenly divides the nominal output interval.
C10_StepDividesInterval ==
    rtResult.kind = "return" =>
        /\ rtResult.value > 0
        /\ rtInput.ngen_ts_s % rtResult.value = 0

\* C11: the timestamp axis of a text v1 file starts at start + one nominal output
\* interval, advances by the routing-native step, ends at and includes the simulation
\* end, and has as many entries as the file has routing timesteps.
C11_AxisOfTextV1 ==
    (rtAxis # Pending /\ rtAxis.kind = "return") =>
        LET axis == rtAxis.value IN
        /\ Len(axis) = rtInput.routing_n_ts
        /\ axis[1] = rtInput.ngen_ts_s
        /\ \A k \in 1..(Len(axis) - 1) : axis[k + 1] - axis[k] = rtResult.value
        /\ axis[Len(axis)] = rtInput.window_s

\* C10 (example): a 10 hour window, a 3600 s interval and 40 routing rows give 900 s.
C10_Example900 ==
    (rtResult # Pending /\ rtInput = [window_s |-> 36000, ngen_ts_s |-> 3600, routing_n_ts |-> 40])
        => rtResult = Return(900)

(***************************************************************************)
(* Routing output extraction: TrouteOutput                                 *)
(*                                                                         *)
(* Time is counted in ticks of 1800 s from a midnight (tick 0); an hour is *)
(* two ticks, so the even ticks are on the hour.  A discharge series is a function from  *)
(* its timestamps to values; NaN marks a missing value.                    *)
(***************************************************************************)

MaxTime == 4    \* last timestamp of a routing output file, in ticks
MaxFlow == 3    \* largest discharge level of a location

NaN == 0 - 1
EmptySeries == [t \in {} |-> 0]
IsEmpty(ds) == DOMAIN ds = {}

SetMin(S) == CHOOSE x \in S : \A y \in S : x <= y
SetMax(S) == CHOOSE x \in S : \A y \in S : x >= y

\* pandas Series addition: operands are aligned on the union of their indexes and a
\* timestamp missing from either side (or NaN on either side) gives NaN.
SeriesAdd(a, b) ==
    [t \in DOMAIN a \cup DOMAIN b |->
        IF t \in DOMAIN a /\ t \in DOMAIN b /\ a[t] # NaN /\ b[t] # NaN
        THEN a[t] + b[t] ELSE NaN]

\* A slice that leaves out its lower end.
SliceLocAfter(ds, lo, hi) == [t \in {u \in DOMAIN ds : lo < u /\ u <= hi} |-> ds[t]]

\* ds.loc[lo:hi] on a sorted DatetimeIndex: both ends inclusive.
SliceLoc(ds, lo, hi) == [t \in {u \in DOMAIN ds : lo <= u /\ u <= hi} |-> ds[t]]

\* ds.resample("1h").first(): one bucket per hour from the first to the last sample,
\* labelled by the hour's start; a bucket takes its earliest non-NaN sample.
Resample1hFirst(ds) ==
    IF IsEmpty(ds) THEN EmptySeries
    ELSE LET lo == SetMin(DOMAIN ds) \div 2
             hi == SetMax(DOMAIN ds) \div 2
             valid(h) == {t \in DOMAIN ds : t \div 2 = h /\ ds[t] # NaN}
         IN  [l \in {2 * h : h \in lo..hi} |->
                 IF valid(l \div 2) = {} THEN NaN ELSE ds[SetMin(valid(l \div 2))]]

\* ---- files ----

\* str(path) and path.suffix as the pieces an error message is formatted from.
PathStr(path) == <<path.stem, path.suffix>>
SuffixStr(path) == <<path.suffix>>

\* str.lower() on a file suffix.
Lower(sfx) ==
    CASE sfx = ".CSV" -> ".csv"
      [] sfx = ".Parquet" -> ".parquet"
      [] sfx = ".NC" -> ".nc"
      [] OTHER -> sfx

\* First lines of text output files, split at the commas.
HeaderCsvV1 == <<"", "\"(0, 'q')\"", "\"(0, 'v')\"", "\"(0, 'd')\"">>
HeaderStreamV1 == <<"", "", "t0", "time", "flow", "velocity", "depth", "nudge">>
HeaderStreamV2 == <<"", "", "current_time", "flow", "velocity", "depth", "nudge">>
HeaderBothTimes == <<"", "", "t0", "time", "current_time", "flow">>
HeaderSubstringT0 == <<"", "", "current_time", "flow", "dist0">>
HeaderNoFlow == <<"", "", "current_time", "velocity">>
HeaderUnknown == <<"", "", "time", "flow">>
HeaderBlank == <<"">>
NoHeader == <<>>

\* Column names that contain the given text.
FieldsContaining(text) ==
    CASE text = "t0" -> {"t0", "dist0"}
      [] text = "current_time" -> {"current_time"}
      [] OTHER -> {text}

\* `text in header`
HeaderContains(header, text) ==
    \E i \in 1..Len(header) : header[i] \in FieldsContaining(text)

\* header.startswith(",\"(0, 'q')\"")
StartsWithCsvV1Prefix(header) ==
    Len(header) >= 2 /\ header[1] = "" /\ header[2] = "\"(0, 'q')\""

HasColumn(header, name) == \E i \in 1..Len(header) : header[i] = name

\* The discharge records a file holds for location `id`.
RowsOf(file, id) == IF id \in DOMAIN file.rows THEN file.rows[id] ELSE EmptySeries

\* Number of routing timesteps of a text v1 file (columns.levshape[0]).
RoutingNts(file) == Cardinality(UNION {DOMAIN file.rows[l] : l \in DOMAIN file.rows})

\* ---- handlers ----

Err(type, msg, arg, site) == [type |-> type, msg |-> msg, arg |-> arg, site |-> site]

\* _csv_output_v1: building the handler computes the routing timestep.
CsvOutputV1(file, time) ==
    LET ts == _routing_timestep_size_s(RoutingNts(file),
                                       (time.end_time - time.start_time) * 1800,
                                       time.output_interval * 1800)
    IN  IF ts.kind = "raise"
        THEN Raise(Err(ts.error, "routing timestep", <<>>, "handler"))
        ELSE Return("csv_output_v1")

\* _stream_output_csv_v1: needs the columns t0 and time.
StreamOutputCsvV1(file) ==
    IF HasColumn(file.header, "t0") /\ HasColumn(file.header, "time")
    THEN Return("stream_output_csv_v1")
    ELSE Raise(Err("KeyError", "column", <<>>, "handler"))

\* _stream_output_csv_v2: needs the column current_time.
StreamOutputCsvV2(file) ==
    IF HasColumn(file.header, "current_time")
    THEN Return("stream_output_csv_v2")
    ELSE Raise(Err("KeyError", "column", <<>>, "handler"))

\* TrouteOutput._factory_handler_csv
_factory_handler_csv(file, time) ==
    IF StartsWithCsvV1Prefix(file.header) THEN CsvOutputV1(file, time)
    ELSE IF HeaderContains(file.header, "t0") THEN StreamOutputCsvV1(file)
    ELSE IF HeaderContains(file.header, "current_time") THEN StreamOutputCsvV2(file)
    ELSE Raise(Err("RuntimeError", "could not parse t-route csv output file", PathStr(file.path), "factory"))

\* TrouteOutput._output_handler_factory
_output_handler_factory(file, time) ==
    LET filetype == Lower(file.path.suffix) IN
    IF filetype = ".csv" THEN _factory_handler_csv(file, time)
    ELSE IF filetype = ".nc" THEN Return("stream_output_netcdf_v1")
    ELSE IF filetype = ".parquet" THEN Return("stream_output_parquet_v1")
    ELSE Raise(Err("RuntimeError", "unsupported t-route output filetype", SuffixStr(file.path), "factory"))

\* fn(id): the handler's get_output called with the integer id.
\*   csv_output_v1 indexes its table by "wb-<id>" strings, so df.loc[<int>] is a KeyError;
\*   the text stream handlers select the "value" column renamed from "flow".
CallHandler(fn, file, id, site) ==
    CASE fn = "csv_output_v1" -> Raise(Err("KeyError", "label", <<id>>, site))
      [] fn \in {"stream_output_csv_v1", "stream_output_csv_v2"} ->
            IF HasColumn(file.header, "flow") THEN Return(RowsOf(file, id))
            ELSE Raise(Err("KeyError", "value", <<>>, site))
      [] OTHER -> Return(RowsOf(file, id))

\* ---- TrouteOutput.get_output ----

\* The error raised when the nexus-id fallback fails as well, were it the fallback's own.
FallbackFailureOwn(original, fallback) == fallback

\* `except Exception: raise e` -- e is the error of the per-catchment path.
FallbackFailure(original, fallback) == original

\* Accumulation that keeps only the latest catchment's flows.
AccumulateLast(ds, flows) == flows

\* ds += flows
Accumulate(ds, flows) == SeriesAdd(ds, flows)

\* One lookup of the per-catchment path: fn(nexus_id), then the emptiness check.
LookupNonEmpty(fn, file, id, site) ==
    LET r == CallHandler(fn, file, id, site) IN
    IF r.kind = "raise" THEN r
    ELSE IF IsEmpty(r.value) THEN Raise(Err("RuntimeError", "no data for", <<id>>, site))
    ELSE r

\* for catchment in nexus.contributing_catchments[1:]: ... ds += flows
RECURSIVE SumRest(_, _, _, _, _)
SumRest(fn, file, cats, i, ds) ==
    IF i > Len(cats) THEN Return(ds)
    ELSE LET r == LookupNonEmpty(fn, file, cats[i], "catchments") IN
         IF r.kind = "raise" THEN r
         ELSE SumRest(fn, file, cats, i + 1, Accumulate(ds, r.value))

\* Scenario 1: sum the flows of all contributing catchments.
AggregateCatchments(fn, file, nexus) ==
    LET cats == nexus.contributing_catchments IN
    IF Len(cats) = 0 THEN Raise(Err("IndexError", "list index out of range", <<>>, "catchments"))
    ELSE LET first == LookupNonEmpty(fn, file, cats[1], "catchments") IN
         IF first.kind = "raise" THEN first
         ELSE SumRest(fn, file, cats, 2, first.value)

\* The try/except of get_output: scenario 1, then scenario 2 with the nexus' own id.
\* Returns the series with the path that produced it, or the error that propagates.
ExtractFlows(fn, file, nexus) ==
    LET agg == AggregateCatchments(fn, file, nexus) IN
    IF agg.kind = "return"
    THEN [kind |-> "return", value |-> agg.value, via |-> "catchments"]
    ELSE LET direct == LookupNonEmpty(fn, file, nexus.id, "nexus") IN
         IF direct.kind = "return"
         THEN [kind |-> "return", value |-> direct.value, via |-> "nexus"]
         ELSE Raise(FallbackFailure(agg.error, direct.error))

\* TrouteOutput._sim_eval_interval
_sim_eval_interval(t) ==
    IF t.eval_options # Unset /\ t.eval_options.evaluation_start # <<>>
    THEN IF t.eval_options.evaluation_stop = <<>>
         THEN Raise(Err("AssertionError", "evaluation_stop", <<>>, "interval"))
         ELSE Return(<<t.eval_options.evaluation_start[1], t.eval_options.evaluation_stop[1]>>)
    ELSE Return(<<t.time.start_time, t.time.end_time>>)

\* TrouteOutput._validation_eval_interval
_validation_eval_interval(t) ==
    IF t.validation_options = Unset THEN _sim_eval_interval(t)
    ELSE Return(<<t.validation_options.start, t.validation_options.stop>>)

\* The mutant: the slice starts where the chosen interval starts.
ReadOutputFromIntervalStart(t, file, interval) ==
    LET fn == _output_handler_factory(file, t.time) IN
    IF fn.kind = "raise" THEN fn
    ELSE LET got == ExtractFlows(fn.value, file, t.nexus) IN
         IF got.kind = "raise" THEN got
         ELSE LET sliced == SliceLoc(got.value, interval[1], interval[2])
              IN  [kind |-> "return", value |-> Resample1hFirst(sliced),
                   aggregated |-> got.value, via |-> got.via,
                   file |-> file.path, handler |-> fn.value]

\* The part of get_output after the output file and the interval are chosen.
ReadOutput(t, file, interval) ==
    LET fn == _output_handler_factory(file, t.time) IN
    IF fn.kind = "raise" THEN fn
    ELSE LET got == ExtractFlows(fn.value, file, t.nexus) IN
         IF got.kind = "raise" THEN got
         ELSE LET start == t.time.start_time
                  ngen_dt == t.time.output_interval
                  sliced == SliceLoc(got.value, start + ngen_dt, interval[2])
              IN  [kind |-> "return", value |-> Resample1hFirst(sliced),
                   aggregated |-> got.value, via |-> got.via,
                   file |-> file.path, handler |-> fn.value]

\* TrouteOutput.get_output
get_output(t) ==
    IF t.settings # Unset /\ t.settings.validation_routing_output.exists
    THEN LET iv == _validation_eval_interval(t) IN
         IF iv.kind = "raise" THEN iv
         ELSE ReadOutput(t, t.settings.validation_routing_output, iv.value)
    ELSE IF t.output_file.exists
    THEN LET iv == _sim_eval_interval(t) IN
         IF iv.kind = "raise" THEN iv
         ELSE ReadOutput(t, t.output_file, iv.value)
    ELSE [kind |-> "none"]

\* ngen_cal_model_output hook
GetOutput ==
    /\ troute # Unset
    /\ goResult = Pending
    /\ goResult' = get_output(troute)
    /\ UNCHANGED <<troute, stream, hfVars, startVars, rtVars, targetVars, cfgVars>>

\* ---- inputs ----

Locs == {1, 2, 3}
FileTimes == 1..MaxTime

\* A location's series: absent, or a level over all file times or all but the first;
\* with `ramp` the value also grows with time.
SeriesChoices(ramp) ==
    {EmptySeries} \cup
    {[t \in dom |-> lvl + (IF ramp THEN t ELSE 0)] :
        dom \in {FileTimes, FileTimes \ {1}}, lvl \in 1..MaxFlow}

CsvPath == [stem |-> "flowveldepth_Ngen", suffix |-> ".csv"]

Nexuses ==
    [id : {1, 3}, contributing_catchments : {<<1>>, <<1, 2>>, <<2, 1>>, <<1, 2, 3>>}]

SimTime == [start_time |-> 0, end_time |-> MaxTime, output_interval |-> 2]

\* Files for the aggregation cases: text stream v2 files with every combination of
\* per-location series, and a text v1 file (whose lookups raise).
AggFiles ==
    {[path |-> CsvPath, exists |-> TRUE, header |-> HeaderStreamV2, rows |-> r] :
        r \in UNION {[Locs -> SeriesChoices(ramp)] : ramp \in BOOLEAN}}
    \cup
    {[path |-> CsvPath, exists |-> TRUE, header |-> h,
      rows |-> [l \in Locs |-> [t \in FileTimes |-> l]]] : h \in {HeaderCsvV1, HeaderNoFlow}}

InitAgg ==
    /\ troute \in [time : {SimTime}, eval_options : {Unset}, validation_options : {Unset},
                   settings : {Unset}, output_file : AggFiles, nexus : Nexuses]
    /\ goResult = Pending
    /\ stream = Unset
    /\ IdleHF
    /\ IdleStart
    /\ IdleRT
    /\ IdleTargets
    /\ IdleCfg

NextAgg == GetOutput

SpecAgg == InitAgg /\ [][NextAgg]_vars

\* The file get_output reads, and the handler chosen for it.
ChosenFile(t) ==
    IF t.settings # Unset /\ t.settings.validation_routing_output.exists
    THEN t.settings.validation_routing_output ELSE t.output_file

Range(seq) == {seq[i] : i \in 1..Len(seq)}

\* Whether the lookup of catchment c fails: it raises or its series is empty.
CatchmentLookupFails(fn, file, c) ==
    LET r == CallHandler(fn, file, c, "catchments") IN
    r.kind = "raise" \/ IsEmpty(r.value)

\* C5: when the per-catchment path fails (a contributing catchment's lookup raises or
\* its series is empty) the nexus' own id is tried next: a non-empty series found there
\* is what get_output goes on with, and if that lookup fails too the error that
\* propagates is the one raised on the per-catchment path, not the fallback's.
C5_OriginalErrorSurfaces ==
    LET file == ChosenFile(troute)
        fn == _output_handler_factory(file, troute.time)
        cats == troute.nexus.contributing_catchments
    IN  (/\ goResult # Pending
         /\ fn.kind = "return"
         /\ \E c \in Range(cats) : CatchmentLookupFails(fn.value, file, c))
        =>
        LET direct == CallHandler(fn.value, file, troute.nexus.id, "nexus") IN
        IF direct.kind = "return" /\ ~IsEmpty(direct.value)
        THEN /\ goResult.kind = "return"
             /\ goResult.via = "nexus"
             /\ goResult.aggregated = direct.value
        ELSE /\ goResult.kind = "raise"
             /\ goResult.error.site = "catchments"
             /\ \E c \in Range(cats) :
                   /\ CatchmentLookupFails(fn.value, file, c)
                   /\ LET r == CallHandler(fn.value, file, c, "catchments") IN
                      goResult.error = IF r.kind = "raise" THEN r.error
                                       ELSE Err("RuntimeError", "no data for", <<c>>, "catchments")

\* C5 witness: both paths failed for a nexus whose own id is no contributing
\* catchment's id, and the error is the per-catchment one.
C5_Witness ==
    /\ goResult.kind = "raise"
    /\ goResult.error.site = "catchments"
    /\ goResult.error.msg = "no data for"
    /\ troute.nexus.id \notin Range(troute.nexus.contributing_catchments)
    /\ goResult.error.arg # <<troute.nexus.id>>
    /\ IsEmpty(RowsOf(troute.output_file, troute.nexus.id))

RECURSIVE SumAt(_, _, _, _)
SumAt(file, cats, i, t) ==
    IF i > Len(cats) THEN 0 ELSE RowsOf(file, cats[i])[t] + SumAt(file, cats, i + 1, t)

\* C6: when every contributing catchment has a non-empty series, the aggregated series
\* (before slicing and resampling) holds, at every timestamp common to all of them,
\* the sum of the catchments' values at that timestamp, each catchment counted once.
C6_AggregateIsSum ==
    LET file == ChosenFile(troute)
        fn == _output_handler_factory(file, troute.time)
        cats == troute.nexus.contributing_catchments
    IN  (/\ goResult # Pending
         /\ fn.kind = "return"
         /\ \A c \in Range(cats) : ~CatchmentLookupFails(fn.value, file, c))
        =>
        /\ goResult.kind = "return"
        /\ goResult.via = "catchments"
        /\ \A t \in FileTimes :
              (\A c \in Range(cats) : t \in DOMAIN RowsOf(file, c))
              => /\ t \in DOMAIN goResult.aggregated
                 /\ goResult.aggregated[t] = SumAt(file, cats, 1, t)

\* C6 witness: three catchments with constant series 1, 2 and 3 aggregate to constant 6.
C6_Witness ==
    /\ goResult.kind = "return"
    /\ troute.nexus.contributing_catchments = <<1, 2, 3>>
    /\ \A c \in Locs : troute.output_file.rows[c] = [t \in FileTimes |-> c]
    /\ troute.output_file.header = HeaderStreamV2
    /\ goResult.aggregated = [t \in FileTimes |-> 6]

(***************************************************************************)
(* Output format detection through get_output                              *)
(***************************************************************************)

Suffixes == {".csv", ".CSV", ".nc", ".NC", ".parquet", ".Parquet", ".hdf5", ".txt", ""}
Headers ==
    {HeaderCsvV1, HeaderStreamV1, HeaderStreamV2, HeaderBothTimes, HeaderSubstringT0,
     HeaderNoFlow, HeaderUnknown, HeaderBlank}

\* Output files of every extension and, for text files, every header; location l
\* carries the constant flow l + bias.
FmtFiles(stem, bias) ==
    {[path |-> [stem |-> stem, suffix |-> sfx], exists |-> e, header |-> h,
      rows |-> [l \in Locs |-> [t \in FileTimes |-> l + bias]]] :
        sfx \in {".csv", ".CSV"}, h \in Headers, e \in BOOLEAN}
    \cup
    {[path |-> [stem |-> stem, suffix |-> sfx], exists |-> e, header |-> NoHeader,
      rows |-> [l \in Locs |-> [t \in FileTimes |-> l + bias]]] :
        sfx \in Suffixes \ {".csv", ".CSV"}, e \in BOOLEAN}

EvalOptions ==
    {Unset,
     [evaluation_start |-> <<>>, evaluation_stop |-> <<>>],
     [evaluation_start |-> <<1>>, evaluation_stop |-> <<>>],
     [evaluation_start |-> <<1>>, evaluation_stop |-> <<MaxTime - 1>>]}

InitFmt ==
    /\ troute \in [time : {SimTime}, eval_options : EvalOptions,
                   validation_options : {Unset, [start |-> 0, stop |-> MaxTime - 2]},
                   settings : {Unset} \cup
                       [validation_routing_output :
                           {f \in FmtFiles("validation", 1) :
                               f.path.suffix \in {".csv", ".parquet", ".txt"}
                               /\ f.header \in {NoHeader, HeaderStreamV2, HeaderUnknown}}],
                   output_file : FmtFiles("flowveldepth_Ngen", 0),
                   nexus : {[id |-> 3, contributing_catchments |-> <<1, 2>>]}]
    /\ goResult = Pending
    /\ stream = Unset
    /\ IdleHF
    /\ IdleStart
    /\ IdleRT
    /\ IdleTargets
    /\ IdleCfg

NextFmt == GetOutput

SpecFmt == InitFmt /\ [][NextFmt]_vars

\* Whether get_output found a file and an interval, and so went on to detect the format.
DetectionReached(t) ==
    IF t.settings # Unset /\ t.settings.validation_routing_output.exists
    THEN _validation_eval_interval(t).kind = "return"
    ELSE t.output_file.exists /\ _sim_eval_interval(t).kind = "return"

UnknownExtension(file) == Lower(file.path.suffix) \notin {".csv", ".nc", ".parquet"}

UnrecognizedCsvHeader(file) ==
    /\ Lower(file.path.suffix) = ".csv"
    /\ ~StartsWithCsvV1Prefix(file.header)
    /\ ~HeaderContains(file.header, "t0")
    /\ ~HeaderContains(file.header, "current_time")

\* C9: an output file with an unknown extension, or a .csv whose header matches none
\* of the three text encodings, makes get_output raise a RuntimeError whose message
\* names the offending path.
C9_DetectionErrorNamesPath ==
    LET file == ChosenFile(troute) IN
    (/\ goResult # Pending
     /\ DetectionReached(troute)
     /\ (UnknownExtension(file) \/ UnrecognizedCsvHeader(file)))
    =>
    /\ goResult.kind = "raise"
    /\ goResult.error.type = "RuntimeError"
    /\ goResult.error.arg = PathStr(file.path)

\* C9 (the part that holds): such a file always ends in a RuntimeError from the
\* detector, never in a handler chosen by default.
C9_NoSilentFallback ==
    LET file == ChosenFile(troute) IN
    (/\ goResult # Pending
     /\ DetectionReached(troute)
     /\ (UnknownExtension(file) \/ UnrecognizedCsvHeader(file)))
    =>
    /\ goResult.kind = "raise"
    /\ goResult.error.type = "RuntimeError"
    /\ goResult.error.site = "factory"

\* ---- slicing and resampling ----

\* A location's samples: any set of file times from tick 0 on, the sample at t worth
\* 10 + t; one of them may be missing (NaN).
SampledSeries ==
    {[t \in dom |-> IF <<t>> = gap THEN NaN ELSE 10 + t] :
        dom \in SUBSET (0..MaxTime), gap \in {<<>>} \cup {<<u>> : u \in 0..MaxTime}}

SliceTimes ==
    [start_time : {0, 1}, end_time : {MaxTime}, output_interval : {1, 2}]

InitSlice ==
    /\ troute \in [time : SliceTimes,
                   eval_options : {Unset, [evaluation_start |-> <<1>>,
                                           evaluation_stop |-> <<MaxTime - 1>>]},
                   validation_options : {Unset, [start |-> 0, stop |-> MaxTime - 2]},
                   settings : {Unset} \cup
                       [validation_routing_output :
                           {[path |-> [stem |-> "validation", suffix |-> ".csv"], exists |-> e,
                             header |-> HeaderStreamV2,
                             rows |-> [l \in {1} |-> [u \in 0..MaxTime |-> 20 + u]]] :
                                e \in BOOLEAN}],
                   output_file : {[path |-> CsvPath, exists |-> TRUE, header |-> HeaderStreamV2,
                                   rows |-> [l \in {1} |-> ds]] : ds \in SampledSeries},
                   nexus : {[id |-> 3, contributing_catchments |-> <<1>>]}]
    /\ goResult = Pending
    /\ stream = Unset
    /\ IdleHF
    /\ IdleStart
    /\ IdleRT
    /\ IdleTargets
    /\ IdleCfg

NextSlice == GetOutput

SpecSlice == InitSlice /\ [][NextSlice]_vars

\* The bounds of the slice: start + output_interval, and the end of the interval used.
SliceLow(t) == t.time.start_time + t.time.output_interval
SliceHigh(t) ==
    IF t.settings # Unset /\ t.settings.validation_routing_output.exists
    THEN _validation_eval_interval(t).value[2] ELSE _sim_eval_interval(t).value[2]

\* The samples of the extracted series that fall in the slice and in the hour from l.
SamplesOfHour(t, l) ==
    {u \in DOMAIN goResult.aggregated :
        SliceLow(t) <= u /\ u <= SliceHigh(t) /\ l <= u /\ u < l + 2}

MaxCat == 2     \* catchments cat-1 .. cat-MaxCat

Cat(n) == <<"cat", n>>
Wb(n) == <<"wb", n>>
Nex(n) == <<"nex", n>>
Gage(n) == <<"usgs", n>>

NoFeature == <<>>
EmptyFeature == <<"">>

\* s.startswith(pfx + "-")
StartsWith(id, pfx) == Len(id) = 2 /\ id[1] = pfx

\* s.replace(old, new) on an identifier's prefix
ReplacePrefix(id, old, new) == IF StartsWith(id, old) THEN <<new, id[2]>> ELSE id

\* hypy Nexus(id, hydro_location, (), contributing_catchments); station is <<>> without
\* a location.
NexusObj(id, station, contributing) ==
    [id |-> id, station |-> station, contributing_catchments |-> contributing]

\* divides.index[divides["toid"] == nexus_id], in index order
RECURSIVE ContributingFrom(_, _, _)
ContributingFrom(divides, nexus_id, c) ==
    IF c > MaxCat THEN <<>>
    ELSE IF Cat(c) \in DOMAIN divides /\ divides[Cat(c)] = nexus_id
         THEN <<Cat(c)>> \o ContributingFrom(divides, nexus_id, c + 1)
         ELSE ContributingFrom(divides, nexus_id, c + 1)

\* ---- NgenExplicit.__init__ ----

RECURSIVE ExplicitLoop(_, _, _)
ExplicitLoop(g, i, targets) ==
    IF i > Len(g.calibrated) THEN [kind |-> "ok", adjustables |-> targets]
    ELSE LET id == g.calibrated[i] IN
         IF id \notin DOMAIN g.divides THEN ExplicitLoop(g, i + 1, targets)   \* continue
         ELSE IF id \notin DOMAIN g.x_walk
         THEN Raise(Err("RuntimeError", "Cannot establish mapping of catchment to nwis location", id, "explicit"))
         ELSE IF g.divides[id] \notin g.nexuses
         THEN Raise(Err("RuntimeError", "No suitable nexus found for catchment", id, "explicit"))
         ELSE ExplicitLoop(g, i + 1,
                  Append(targets, [type |-> "CalibrationCatchment", id |-> id,
                                   eval_nexus |-> NexusObj(g.divides[id], <<g.x_walk[id]>>, <<id>>)]))

\* The mutant: an error of the loop is swallowed and the catchment left out.
NgenExplicitLenient(g) ==
    LET looped == ExplicitLoop(g, 1, <<>>)
    IN  IF looped.kind = "raise" THEN [kind |-> "ok", adjustables |-> <<>>] ELSE looped

NgenExplicit(g) == ExplicitLoop(g, 1, <<>>)

\* ---- NgenIndependent.__init__ ----

\* The loop over the catchments: every catchment becomes adjustable, the gauged ones
\* also contribute a nexus to eval_nexus.
RECURSIVE IndependentLoop(_, _, _, _)
IndependentLoop(g, c, catchments, eval_nexus) ==
    IF c > MaxCat THEN [kind |-> "return", catchments |-> catchments, eval_nexus |-> eval_nexus]
    ELSE IF Cat(c) \notin DOMAIN g.divides THEN IndependentLoop(g, c + 1, catchments, eval_nexus)
    ELSE LET id == Cat(c)
             toid == g.divides[id]
             nwis == IF ReplacePrefix(id, "cat", "wb") \in DOMAIN g.x_walk
                     THEN <<g.x_walk[ReplacePrefix(id, "cat", "wb")]>>
                     ELSE IF id \in DOMAIN g.x_walk THEN <<g.x_walk[id]>> ELSE <<>>
         IN  IF toid \notin g.nexuses
             THEN Raise(Err("RuntimeError", "No suitable nexus found for catchment", id, "independent"))
             ELSE IndependentLoop(g, c + 1, Append(catchments, id),
                      IF nwis # <<>> THEN Append(eval_nexus, NexusObj(toid, nwis, <<id>>))
                                     ELSE eval_nexus)

\* wb = flowpaths[flowpaths['toid'] == n.id]
FlowpathsTo(g, nexus_id) == SelectSeq(g.flowpaths, LAMBDA r : r.toid = nexus_id)

\* if self.eval_feature: for n in eval_nexus: ... if key == self.eval_feature:
\*     eval_nexus = [n]; break
RECURSIVE IndependentSelect(_, _, _)
IndependentSelect(g, eval_nexus, i) ==
    IF i > Len(eval_nexus) THEN Return(eval_nexus)
    ELSE IF g.hf_kind = "geojson"
    THEN Raise(Err("AttributeError", "_flowpath_hydro_fabric", <<>>, "independent"))
    ELSE LET wb == FlowpathsTo(g, eval_nexus[i].id) IN
         IF Len(wb) = 0 THEN Raise(Err("IndexError", "single positional indexer is out-of-bounds", <<>>, "independent"))
         ELSE IF wb[1].id = g.eval_feature THEN Return(<<eval_nexus[i]>>)
         ELSE IndependentSelect(g, eval_nexus, i + 1)

Truthy(feature) == feature \notin {NoFeature, EmptyFeature}

SingleNexusError(site) ==
    Err("RuntimeError", "Currently only a single nexus in the hydrfabric can be gaged, set the eval_feature key to pick one.", <<>>, site)

NgenIndependent(g) ==
    LET looped == IndependentLoop(g, 1, <<>>, <<>>) IN
    IF looped.kind = "raise" THEN looped
    ELSE LET chosen == IF Truthy(g.eval_feature) THEN IndependentSelect(g, looped.eval_nexus, 1)
                       ELSE Return(looped.eval_nexus)
         IN  IF chosen.kind = "raise" THEN chosen
             ELSE IF Len(chosen.value) # 1 THEN Raise(SingleNexusError("independent"))
             ELSE [kind |-> "ok",
                   adjustables |-> <<[type |-> "CalibrationSet", catchments |-> looped.catchments,
                                      eval_nexus |-> chosen.value[1]]>>]

\* ---- NgenUniform.__init__ ----

\* The k-th possible index entry of the crosswalk: wb-1, cat-1, wb-2, cat-2, ...
CrosswalkKey(k) == IF k % 2 = 1 THEN Wb((k + 1) \div 2) ELSE Cat(k \div 2)

\* for wb_id, gage_id in crosswalk.items(): ...
RECURSIVE BuildGaugedLoop(_, _, _)
BuildGaugedLoop(g, k, eval_nexus) ==
    IF k > 2 * MaxCat THEN Return(eval_nexus)
    ELSE IF CrosswalkKey(k) \notin DOMAIN g.x_walk THEN BuildGaugedLoop(g, k + 1, eval_nexus)
    ELSE LET wb_id == CrosswalkKey(k)
             cat_id == ReplacePrefix(wb_id, "wb", "cat")
         IN  IF cat_id \notin DOMAIN g.divides
             THEN Raise(Err("KeyError", "divides.loc", cat_id, "uniform"))
             ELSE IF g.divides[cat_id] \notin g.nexuses
             THEN Raise(Err("KeyError", "nexuses.at", g.divides[cat_id], "uniform"))
             ELSE BuildGaugedLoop(g, k + 1,
                      Append(eval_nexus,
                             NexusObj(g.divides[cat_id], <<g.x_walk[wb_id]>>,
                                      ContributingFrom(g.divides, g.divides[cat_id], 1))))

_build_gauged_hyfeatures_nexuses(g) == BuildGaugedLoop(g, 1, <<>>)

\* One nexus of _find_eval_feature's loop: is it a candidate for eval_feature?
IsCandidate(eval_feature, n) ==
    IF StartsWith(eval_feature, "nex") /\ eval_feature = n.id THEN TRUE
    ELSE IF StartsWith(eval_feature, "cat")
    THEN \E i \in 1..Len(n.contributing_catchments) : n.contributing_catchments[i] = eval_feature
    ELSE <<eval_feature>> = n.station

_find_eval_feature(eval_feature, nexuses) ==
    LET feature == IF StartsWith(eval_feature, "wb") THEN ReplacePrefix(eval_feature, "wb", "cat")
                   ELSE eval_feature
    IN  SelectSeq(nexuses, LAMBDA n : IsCandidate(feature, n))

NgenUniform(g) ==
    LET gauged == _build_gauged_hyfeatures_nexuses(g) IN
    IF gauged.kind = "raise" THEN gauged
    ELSE LET eval_nexus == IF Truthy(g.eval_feature) THEN _find_eval_feature(g.eval_feature, gauged.value)
                           ELSE gauged.value
         IN  IF Len(eval_nexus) # 1 THEN Raise(SingleNexusError("uniform"))
             ELSE [kind |-> "ok",
                   adjustables |-> <<[type |-> "UniformCalibrationSet", eval_nexus |-> eval_nexus[1]]>>]

\* ---- construction ----

ConstructExplicit ==
    /\ ngen # Unset /\ built = Pending
    /\ ngen.strategy = "explicit"
    /\ built' = NgenExplicit(ngen)
    /\ UNCHANGED <<ngen, forcing, hfVars, startVars, rtVars, goVars, cfgVars>>

ConstructIndependent ==
    /\ ngen # Unset /\ built = Pending
    /\ ngen.strategy = "independent"
    /\ built' = NgenIndependent(ngen)
    /\ UNCHANGED <<ngen, forcing, hfVars, startVars, rtVars, goVars, cfgVars>>

ConstructUniform ==
    /\ ngen # Unset /\ built = Pending
    /\ ngen.strategy = "uniform"
    /\ built' = NgenUniform(ngen)
    /\ UNCHANGED <<ngen, forcing, hfVars, startVars, rtVars, goVars, cfgVars>>

\* ---- inputs ----

CatIds == {Cat(c) : c \in 1..MaxCat}
NexusIds == {Nex(1), Nex(2)}
GageIds == {Gage(1), Gage(2)}

\* divides tables: some of the catchments, each draining to a nexus
DividesTables == UNION {[D -> NexusIds] : D \in SUBSET CatIds}

\* The crosswalk of a geopackage is indexed by flowpath ids, the legacy crosswalk
\* file by catchment ids.
Crosswalks(hf_kind) ==
    LET keys == IF hf_kind = "gpkg" THEN {Wb(c) : c \in 1..MaxCat} ELSE CatIds
    IN  UNION {[K -> GageIds] : K \in SUBSET keys}

\* The flowpaths layer: flowpath wb-c drains where divide cat-c drains.
RECURSIVE FlowpathRows(_, _, _)
FlowpathRows(divides, c, ascending) ==
    IF c > MaxCat THEN <<>>
    ELSE LET rest == FlowpathRows(divides, c + 1, ascending)
             row == IF Cat(c) \in DOMAIN divides
                    THEN <<[id |-> Wb(c), toid |-> divides[Cat(c)]]>> ELSE <<>>
         IN  IF ascending THEN row \o rest ELSE rest \o row

FlowpathTables(hf_kind, divides) ==
    IF hf_kind = "gpkg"
    THEN {FlowpathRows(divides, 1, TRUE), FlowpathRows(divides, 1, FALSE), <<>>}
    ELSE {<<>>}    \* the legacy path loads no flowpaths

Features == {NoFeature, EmptyFeature, Nex(1), Nex(2), Cat(1), Wb(1), Wb(2), Gage(1)}

\* realization catchments that declare calibration parameters, in file order
RECURSIVE AscendingCats(_, _)
AscendingCats(S, c) ==
    IF c > MaxCat THEN <<>>
    ELSE (IF Cat(c) \in S THEN <<Cat(c)>> ELSE <<>>) \o AscendingCats(S, c + 1)

CalibratedChoices == {AscendingCats(S, 1) : S \in SUBSET CatIds}

NgenInputs ==
    UNION {UNION {
        {g \in [strategy : {"explicit", "independent", "uniform"},
                hf_kind : {hk}, divides : {d}, nexuses : {NexusIds, {Nex(1)}},
                flowpaths : FlowpathTables(hk, d), x_walk : Crosswalks(hk),
                eval_feature : Features, calibrated : CalibratedChoices] :
            IF g.strategy = "explicit" THEN g.eval_feature = NoFeature
            ELSE g.calibrated = <<>>}
        : d \in DividesTables} : hk \in {"gpkg", "geojson"}}

InitTargets ==
    /\ ngen \in NgenInputs
    /\ built = Pending
    /\ forcing = Unset
    /\ IdleHF
    /\ IdleStart
    /\ IdleRT
    /\ IdleGO
    /\ IdleCfg

NextTargets == ConstructExplicit \/ ConstructIndependent \/ ConstructUniform

SpecTargets == InitTargets /\ [][NextTargets]_vars

\* ---- properties of target construction ----

SeqRange(q) == {q[i] : i \in 1..Len(q)}

\* The nexuses of the hydrofabric that are gauged: a crosswalk entry exists for at
\* least one contributing catchment (under its flowpath id or its catchment id).
GaugedNexuses(g) ==
    {g.divides[c] : c \in {d \in DOMAIN g.divides :
                               ReplacePrefix(d, "cat", "wb") \in DOMAIN g.x_walk
                               \/ d \in DOMAIN g.x_walk}}

\* Every divide drains to a known nexus and every crosswalk entry names a known divide.
WellFormed(g) ==
    /\ \A c \in DOMAIN g.divides : g.divides[c] \in g.nexuses
    /\ \A k \in DOMAIN g.x_walk : ReplacePrefix(k, "wb", "cat") \in DOMAIN g.divides

\* The independent strategy's test of one candidate against eval_feature.
IndependentMatches(g, n) ==
    /\ g.hf_kind = "gpkg"
    /\ FlowpathsTo(g, n.id) # <<>>
    /\ FlowpathsTo(g, n.id)[1].id = g.eval_feature

\* The candidate evaluation nexuses that are left after the eval_feature filter.
FilteredCandidates(g) ==
    IF g.strategy = "uniform"
    THEN LET gauged == _build_gauged_hyfeatures_nexuses(g) IN
         IF gauged.kind = "raise" THEN {}
         ELSE IF Truthy(g.eval_feature)
              THEN {n.id : n \in SeqRange(_find_eval_feature(g.eval_feature, gauged.value))}
              ELSE {n.id : n \in SeqRange(gauged.value)}
    ELSE IF g.strategy = "independent"
    THEN LET looped == IndependentLoop(g, 1, <<>>, <<>>) IN
         IF looped.kind = "raise" THEN {}
         ELSE IF Truthy(g.eval_feature)
              THEN {n.id : n \in {m \in SeqRange(looped.eval_nexus) : IndependentMatches(g, m)}}
              ELSE {n.id : n \in SeqRange(looped.eval_nexus)}
    ELSE {}

\* An explicit target's candidates: the gauged nexus its catchment drains to.
ExplicitCandidates(g, id) ==
    IF id \in DOMAIN g.x_walk /\ g.divides[id] \in g.nexuses THEN {g.divides[id]} ELSE {}

\* C1: for every strategy, construction raises whenever the candidate evaluation
\* nexuses left after the optional eval_feature filter are none or more than one; in
\* particular an eval_feature that matches no candidate is an error and no candidate
\* is picked silently.  (Explicit: every calibrated catchment of the hydrofabric has
\* its own candidates.)
C1_AmbiguousChoiceIsFatal ==
    built # Pending =>
        IF ngen.strategy = "explicit"
        THEN (\E i \in 1..Len(ngen.calibrated) :
                  /\ ngen.calibrated[i] \in DOMAIN ngen.divides
                  /\ Cardinality(ExplicitCandidates(ngen, ngen.calibrated[i])) # 1)
             => built.kind = "raise"
        ELSE Cardinality(FilteredCandidates(ngen)) # 1 => built.kind = "raise"

\* C2: with exactly one gauged nexus in a well-formed hydrofabric and no eval_feature,
\* construction of the single-target strategies succeeds with exactly one evaluation
\* target, the gauged nexus, also when several crosswalk entries belong to catchments
\* draining to that nexus.
C2_OneGaugedNexusSucceeds ==
    (/\ built # Pending
     /\ ngen.strategy \in {"independent", "uniform"}
     /\ ngen.eval_feature = NoFeature
     /\ WellFormed(ngen)
     /\ Cardinality(GaugedNexuses(ngen)) = 1)
    => /\ built.kind = "ok"
       /\ Len(built.adjustables) = 1
       /\ built.adjustables[1].eval_nexus.id \in GaugedNexuses(ngen)

\* The targets construction made for catchment id.
TargetsOf(id) == {k \in 1..Len(built.adjustables) : built.adjustables[k].id = id}

\* Resolution of an opted-in catchment fails: no crosswalk entry, or no downstream nexus.
ResolutionFails(g, id) == id \notin DOMAIN g.x_walk \/ g.divides[id] \notin g.nexuses

\* Construction raised a RuntimeError that names an opted-in catchment.
RaisedNaming(ids) ==
    /\ built.kind = "raise"
    /\ built.error.type = "RuntimeError"
    /\ built.error.arg \in ids

\* C19: explicit strategy: for every catchment that declares calibration parameters,
\* construction makes exactly one target for it or raises a RuntimeError naming an
\* opted-in catchment; none is left out silently, also not one absent from the
\* hydrofabric.
C19_OptedInTargetOrRaise ==
    (built # Pending /\ ngen.strategy = "explicit")
    => \A i \in 1..Len(ngen.calibrated) :
           \/ built.kind = "ok" /\ Cardinality(TargetsOf(ngen.calibrated[i])) = 1
           \/ RaisedNaming(SeqRange(ngen.calibrated))

\* C19 as amended: for the opted-in catchments that are in the hydrofabric,
\* construction makes exactly one target each, or raises a RuntimeError naming one of
\* them whose crosswalk entry or downstream nexus is missing, and it raises whenever
\* there is such a catchment; an opted-in catchment absent from the hydrofabric gets
\* no target and no error.
C19_PresentTargetOrRaise ==
    (built # Pending /\ ngen.strategy = "explicit")
    => LET present == {id \in SeqRange(ngen.calibrated) : id \in DOMAIN ngen.divides}
           failing == {id \in present : ResolutionFails(ngen, id)}
       IN  IF failing # {}
           THEN RaisedNaming(failing)
           ELSE /\ built.kind = "ok"
                /\ \A id \in SeqRange(ngen.calibrated) :
                       Cardinality(TargetsOf(id)) = IF id \in present THEN 1 ELSE 0

\* C19 witness: one opted-in catchment got its target, another, absent from the
\* hydrofabric, was left out.
C19_Witness ==
    /\ built # Pending /\ ngen # Unset
    /\ ngen.strategy = "explicit"
    /\ built.kind = "ok"
    /\ Len(built.adjustables) = 1
    /\ \E i \in 1..Len(ngen.calibrated) : ngen.calibrated[i] \notin DOMAIN ngen.divides

\* The candidate nexuses a strategy builds before it looks at eval_feature.
CandidateNexuses(g) ==
    IF g.strategy = "uniform" THEN _build_gauged_hyfeatures_nexuses(g)
    ELSE LET looped == IndependentLoop(g, 1, <<>>, <<>>) IN
         IF looped.kind = "raise" THEN looped ELSE Return(looped.eval_nexus)

\* The three forms of the override: a nexus id, a catchment or flowpath id (the
\* flowpath prefix translated to the catchment prefix), or a bare gauge id.
Selects(feature, n) ==
    IF StartsWith(feature, "nex") THEN n.id = feature
    ELSE IF StartsWith(feature, "cat") \/ StartsWith(feature, "wb")
    THEN <<"cat", feature[2]>> \in SeqRange(n.contributing_catchments)
    ELSE n.station = <<feature>>

\* C16: in the uniform and the independent strategy an eval_feature given as a nexus
\* id, as a gauge id or as a catchment / flowpath id selects exactly the candidates
\* with that id, that station or that contributing catchment: construction succeeds
\* with the selected candidate when there is exactly one and raises otherwise.
C16_EvalFeatureThreeForms ==
    (/\ built # Pending
     /\ ngen.strategy \in {"uniform", "independent"}
     /\ Truthy(ngen.eval_feature)
     /\ CandidateNexuses(ngen).kind = "return")
    => LET selected == SelectSeq(CandidateNexuses(ngen).value,
                                 LAMBDA n : Selects(ngen.eval_feature, n))
       IN  IF Len(selected) = 1
           THEN /\ built.kind = "ok"
                /\ built.adjustables[1].eval_nexus = selected[1]
           ELSE built.kind = "raise"

(***************************************************************************)
(* Parameter table and configuration rewrite: _params_as_df,               *)
(* _map_params_to_realization, NgenBase.update_config,                     *)
(* NgenExplicit.update_config                                              *)
(*                                                                         *)
(* A formulation's params node is either a single model                    *)
(*   [kind |-> "single", model_name, model_params]                         *)
(* or a MultiBMI [kind |-> "multi", modules |-> <<single, ...>>];           *)
(* model_params None is <<>>, a dict d is <<d>>.  The parameter table is   *)
(*   [columns, rows, values]: rows carry the index p, param and model,     *)
(* values[i] is the column named str(i), one value per row.                *)
(***************************************************************************)

MaxIter == 1    \* iterations 0 .. MaxIter

NoId == <<>>

Single(name, model_params) ==
    [kind |-> "single", model_name |-> name, model_params |-> model_params]
MultiBMI(modules) == [kind |-> "multi", modules |-> modules]

\* ---- _params_as_df ----

\* pd.DataFrame([s.__dict__ for s in v]); df['model'] = k; rename name -> param;
\* df['p'] = df['param']; set_index('p')
RECURSIVE ParamRows(_, _, _)
ParamRows(model, plist, k) ==
    IF k > Len(plist) THEN <<>>
    ELSE <<[p |-> plist[k], param |-> plist[k], model |-> model]>> \o ParamRows(model, plist, k + 1)

\* The columns of a frame with these rows: an empty frame only has 'model'.
ColumnsFor(rows) ==
    IF rows = <<>> THEN {"model"} ELSE {"param", "min", "max", "init", "model"}

Table(rows) == [columns |-> ColumnsFor(rows), rows |-> rows, values |-> <<>>]

\* pd.concat(dfs) over params.items()
RECURSIVE ConcatAll(_, _)
ConcatAll(spec, k) ==
    IF k > Len(spec) THEN <<>>
    ELSE ParamRows(spec[k].model, spec[k].params, 1) \o ConcatAll(spec, k + 1)

\* _params_as_df(params): the branch without a name
ParamsAsDfAll(spec) ==
    IF Len(spec) = 0
    THEN Raise(Err("ValueError", "No objects to concatenate", <<>>, "_params_as_df"))
    ELSE LET rows == ConcatAll(spec, 1) IN
         IF rows = <<>> THEN Raise(Err("KeyError", "column", "param", "_params_as_df"))
         ELSE Return(Table(rows))

\* params.get(name, [])
SpecGet(spec, name) ==
    IF \E k \in 1..Len(spec) : spec[k].model = name
    THEN spec[CHOOSE k \in 1..Len(spec) : spec[k].model = name].params
    ELSE <<>>

\* _params_as_df(params, name): the rows of one model
ParamsAsDfNamed(spec, name) == ParamRows(name, SpecGet(spec, name), 1)

_params_as_df(spec, name) ==
    IF name = <<>> THEN ParamsAsDfAll(spec) ELSE Return(Table(ParamsAsDfNamed(spec, name[1])))

\* ---- _map_params_to_realization ----

RECURSIVE ConcatModules(_, _, _)
ConcatModules(spec, modules, k) ==
    IF k > Len(modules) THEN <<>>
    ELSE ParamsAsDfNamed(spec, modules[k].model_name) \o ConcatModules(spec, modules, k + 1)

_map_params_to_realization(spec, module) ==
    IF module.kind = "multi"
    THEN Return(Table(ConcatModules(spec, module.modules, 1)))
    ELSE _params_as_df(spec, <<module.model_name>>)

\* ---- update_config ----

\* groups.groups: the model names that have rows
GroupNames(table) == {table.rows[r].model : r \in 1..Len(table.rows)}

\* The rows of the whole table, as a mis-grouped lookup would return them.
GetGroupUngrouped(table, name) == 1..Len(table.rows)

\* groups.get_group(name): the rows of one model
GetGroup(table, name) == {r \in 1..Len(table.rows) : table.rows[r].model = name}

\* A lookup that answers a missing iteration column with the previous one.
ColumnOrPrevious(table, i) ==
    IF i \in DOMAIN table.values THEN Return(table.values[i])
    ELSE IF DOMAIN table.values # {} THEN Return(table.values[SetMax(DOMAIN table.values)])
    ELSE Raise(Err("KeyError", "column", i, "update_config"))

\* p[str(i)]
Column(table, i) ==
    IF i \in DOMAIN table.values THEN Return(table.values[i])
    ELSE Raise(Err("KeyError", "column", i, "update_config"))

\* Series.to_dict() of a group's column, indexed by param: the last row of a
\* repeated param wins.
ToDict(table, group, column) ==
    [k \in {table.rows[r].param : r \in group} |->
        column[SetMax({r \in group : table.rows[r].param = k})]]

\* The mutant: the table's entries are merged into the map that was there.
AssignModelParamsMerged(m, table, i) ==
    LET column == Column(table, i) IN
    IF column.kind = "raise" THEN column
    ELSE LET new == ToDict(table, GetGroup(table, m.model_name), column.value)
             old == IF m.model_params = <<>> THEN [k \in {} |-> 0] ELSE m.model_params[1]
         IN  Return([m EXCEPT !.model_params =
                        <<[k \in DOMAIN old \cup DOMAIN new |->
                              IF k \in DOMAIN new THEN new[k] ELSE old[k]]>>])

\* m.params.model_params = p[str(i)].to_dict()
AssignModelParams(m, table, i) ==
    LET column == Column(table, i) IN
    IF column.kind = "raise" THEN column
    ELSE Return([m EXCEPT !.model_params =
                    <<ToDict(table, GetGroup(table, m.model_name), column.value)>>])

\* for m in module.modules: if name in groups.groups: ...
RECURSIVE UpdateModules(_, _, _, _)
UpdateModules(modules, k, table, i) ==
    IF k > Len(modules) THEN Return(modules)
    ELSE IF modules[k].model_name \notin GroupNames(table)
    THEN UpdateModules(modules, k + 1, table, i)
    ELSE LET m == AssignModelParams(modules[k], table, i) IN
         IF m.kind = "raise" THEN m
         ELSE UpdateModules([modules EXCEPT ![k] = m.value], k + 1, table, i)

\* The body of update_config on the chosen module, up to the assignment.
UpdateModule(module, table, i) ==
    IF "param" \notin table.columns
    THEN Raise(Err("KeyError", "column", "param", "update_config"))
    ELSE IF module.kind = "multi"
    THEN LET ms == UpdateModules(module.modules, 1, table, i) IN
         IF ms.kind = "raise" THEN ms ELSE Return([module EXCEPT !.modules = ms.value])
    ELSE IF module.model_name \notin GroupNames(table)
    THEN Raise(Err("KeyError", "get_group", module.model_name, "update_config"))
    ELSE AssignModelParams(module, table, i)

\* ---- the configuration file ----

\* The text of a number: sign and decimal digits.
RECURSIVE Digits(_)
Digits(n) == IF n < 10 THEN <<n>> ELSE Digits(n \div 10) \o <<n % 10>>

NumberText(v) == [negative |-> v < 0, digits |-> Digits(IF v < 0 THEN 0 - v ELSE v)]

RECURSIVE DigitsValue(_)
DigitsValue(d) ==
    IF Len(d) = 0 THEN 0 ELSE 10 * DigitsValue(SubSeq(d, 1, Len(d) - 1)) + d[Len(d)]

ParseNumber(t) == IF t.negative THEN 0 - DigitsValue(t.digits) ELSE DigitsValue(t.digits)

\* json(by_alias=True, exclude_none=True): model_name is written under its alias
\* model_type_name, a model_params of None is left out.
JsonModule(m) ==
    IF m.model_params = <<>>
    THEN [name |-> "bmi", params |-> [model_type_name |-> m.model_name]]
    ELSE [name |-> "bmi",
          params |-> [model_type_name |-> m.model_name,
                      model_params |-> [k \in DOMAIN m.model_params[1] |->
                                            NumberText(m.model_params[1][k])]]]

JsonFormulation(module) ==
    IF module.kind = "multi"
    THEN [name |-> "bmi_multi",
          params |-> [model_type_name |-> "bmi_multi",
                      modules |-> [k \in 1..Len(module.modules) |-> JsonModule(module.modules[k])]]]
    ELSE JsonModule(module)

Json(ngen_realization) ==
    [global |-> [formulations |-> <<JsonFormulation(ngen_realization.global_config)>>],
     catchments |-> [c \in DOMAIN ngen_realization.catchments |->
                        [formulations |-> <<JsonFormulation(ngen_realization.catchments[c])>>]]]

\* json.load and NgenRealization(**data)
ParseModule(doc) ==
    Single(doc.params.model_type_name,
           IF "model_params" \in DOMAIN doc.params
           THEN <<[k \in DOMAIN doc.params.model_params |-> ParseNumber(doc.params.model_params[k])]>>
           ELSE <<>>)

ParseFormulation(doc) ==
    IF doc.name = "bmi_multi"
    THEN MultiBMI([k \in 1..Len(doc.params.modules) |-> ParseModule(doc.params.modules[k])])
    ELSE ParseModule(doc)

ParseConfig(doc) ==
    [global_config |-> ParseFormulation(doc.global.formulations[1]),
     catchments |-> [c \in DOMAIN doc.catchments |->
                        ParseFormulation(doc.catchments[c].formulations[1])]]

\* A glob that finds nothing.
GlobNothing(files) == {}

\* Path(path).glob("*NEXOUT.parquet"); a file name is <<head, tail>>.
GlobNexout(files) == {f \in files : f[2] = "NEXOUT.parquet"}

\* ---- NgenBase.update_config ----

\* The result, the realization in memory and the working directory after the call.
\* The mutant: the transient files are cleared before the configuration is updated.
update_config_clear_first(rz, table, wd, i, id) ==
    LET cleared == [wd EXCEPT !.files = wd.files \ GlobNexout(wd.files)]
        failed(e) == [outcome |-> Raise(e), ngen_realization |-> rz, workdir |-> cleared]
    IN
    IF id # NoId /\ id \notin DOMAIN rz.catchments
    THEN failed(Err("KeyError", "catchments", id, "update_config"))
    ELSE LET module == IF id = NoId THEN rz.global_config ELSE rz.catchments[id]
             updated == UpdateModule(module, table, i)
         IN  IF updated.kind = "raise" THEN failed(updated.error)
             ELSE LET rz2 == IF id = NoId THEN [rz EXCEPT !.global_config = updated.value]
                             ELSE [rz EXCEPT !.catchments[id] = updated.value]
                  IN  [outcome |-> Return(<<>>),
                       ngen_realization |-> rz2,
                       workdir |-> [config |-> <<Json(rz2)>>, files |-> cleared.files]]

update_config(rz, table, wd, i, id) ==
    LET failed(e) == [outcome |-> Raise(e), ngen_realization |-> rz, workdir |-> wd] IN
    IF id # NoId /\ id \notin DOMAIN rz.catchments
    THEN failed(Err("KeyError", "catchments", id, "update_config"))
    ELSE LET module == IF id = NoId THEN rz.global_config ELSE rz.catchments[id]
             updated == UpdateModule(module, table, i)
         IN  IF updated.kind = "raise" THEN failed(updated.error)
             ELSE LET rz2 == IF id = NoId THEN [rz EXCEPT !.global_config = updated.value]
                             ELSE [rz EXCEPT !.catchments[id] = updated.value]
                  IN  [outcome |-> Return(<<>>),
                       ngen_realization |-> rz2,
                       workdir |-> [config |-> <<Json(rz2)>>,
                                    files |-> wd.files \ GlobNexout(wd.files)]]

\* ---- NgenExplicit.update_config ----

NgenExplicit_update_config(rz, table, wd, i, id) ==
    IF id = NoId
    THEN [outcome |-> Raise(Err("RuntimeError", "NgenExplicit calibration must recieve an id to update, not None", <<>>, "explicit")),
          ngen_realization |-> rz, workdir |-> wd]
    ELSE update_config(rz, table, wd, i, id)

\* ---- construction of the table, the driver, the calls ----

\* The table a strategy builds at construction: NgenUniform from the whole
\* specification, NgenExplicit and NgenIndependent from the catchment's formulation.
BuildTable(r) ==
    IF r.strategy = "uniform" THEN _params_as_df(r.params, <<>>)
    ELSE _map_params_to_realization(r.params, r.ngen_realization.catchments[Cat(1)])

BuildParams ==
    /\ realization # Unset /\ params = Unset
    /\ params' = BuildTable(realization)
    /\ UNCHANGED <<realization, workdir, updResult, iteration, hfVars, startVars, rtVars, targetVars, goVars>>

\* The value the optimizer proposes for row r in iteration j.
Proposal(r, j) == 7 * r + 13 * j - 10

\* The calibration driver adds the column str(j) of iteration j.
DriverSetIteration(j) ==
    /\ params # Unset /\ params.kind = "return"
    /\ j \notin DOMAIN params.value.values
    /\ params' = Return([params.value EXCEPT !.values =
                     [c \in DOMAIN params.value.values \cup {j} |->
                         IF c = j THEN [r \in 1..Len(params.value.rows) |-> Proposal(r, j)]
                         ELSE params.value.values[c]]])
    /\ UNCHANGED <<realization, workdir, updResult, iteration, hfVars, startVars, rtVars, targetVars, goVars>>

Called(done, i, id) ==
    /\ realization' = [realization EXCEPT !.ngen_realization = done.ngen_realization]
    /\ workdir' = done.workdir
    /\ updResult' = [outcome |-> done.outcome, i |-> i, id |-> id]
    /\ UNCHANGED <<params, iteration, hfVars, startVars, rtVars, targetVars, goVars>>

UpdateConfig(i, id) ==
    /\ params # Unset /\ params.kind = "return"
    /\ realization.strategy # "explicit"
    /\ Called(update_config(realization.ngen_realization, params.value, workdir, i, id), i, id)

UpdateConfigExplicit(i, id) ==
    /\ params # Unset /\ params.kind = "return"
    /\ realization.strategy = "explicit"
    /\ Called(NgenExplicit_update_config(realization.ngen_realization, params.value, workdir, i, id), i, id)

\* ---- inputs ----

Iterations == 0..MaxIter
TargetIds == {NoId, Cat(1), Cat(2)}

ParamLists == {<<>>, <<"a">>, <<"a", "b">>, <<"a", "a">>}

\* params: Mapping[str, Parameters], in the order of the calibration file
ParamSpecs ==
    {<<>>}
    \cup {<<[model |-> m, params |-> l]>> : m \in {"CFE", "NoahOWP"}, l \in ParamLists}
    \cup {<<[model |-> "CFE", params |-> l1], [model |-> "NoahOWP", params |-> l2]>> :
              l1 \in ParamLists, l2 \in ParamLists}
    \cup {<<[model |-> "NoahOWP", params |-> l2], [model |-> "CFE", params |-> l1]>> :
              l1 \in ParamLists, l2 \in ParamLists}

Cfe == Single("CFE", <<[a |-> 0, z |-> 0]>>)
Noah == Single("NoahOWP", <<>>)
Sloth == Single("SLOTH", <<[z |-> 0]>>)

Formulations == {Cfe, MultiBMI(<<Cfe, Noah>>), MultiBMI(<<Sloth, Cfe>>), MultiBMI(<<Sloth>>)}

\* NgenIndependent copies the global configuration into every catchment;
\* NgenExplicit reads the catchments of the realization file.
Realizations ==
    {[strategy |-> "uniform", params |-> sp,
      ngen_realization |-> [global_config |-> f, catchments |-> <<>>]] :
          sp \in ParamSpecs, f \in Formulations}
    \cup {[strategy |-> "independent", params |-> sp,
           ngen_realization |-> [global_config |-> f, catchments |-> [c \in {Cat(1)} |-> f]]] :
          sp \in ParamSpecs, f \in Formulations}
    \cup {[strategy |-> "explicit", params |-> sp,
           ngen_realization |-> [global_config |-> Sloth, catchments |-> [c \in {Cat(1)} |-> f]]] :
          sp \in ParamSpecs, f \in Formulations}

WorkdirFiles ==
    {{}, {<<"troute_output_", "NEXOUT.parquet">>, <<"flowveldepth_", ".parquet">>}}

\* The realization file as found at start: the copies NgenIndependent makes for the
\* catchments exist in memory only.
RealizationFile(r) ==
    IF r.strategy = "independent"
    THEN Json([r.ngen_realization EXCEPT !.catchments = <<>>])
    ELSE Json(r.ngen_realization)

InitCfg ==
    /\ realization \in Realizations
    /\ params = Unset
    /\ workdir \in {[config |-> <<RealizationFile(realization)>>, files |-> fs] :
                        fs \in WorkdirFiles}
    /\ updResult = Pending
    /\ iteration = Unset
    /\ IdleHF
    /\ IdleStart
    /\ IdleRT
    /\ IdleGO
    /\ IdleTargets

NextCfg ==
    \/ BuildParams
    \/ \E j \in Iterations : DriverSetIteration(j)
    \/ \E i \in Iterations, id \in TargetIds : UpdateConfig(i, id)
    \/ \E i \in Iterations, id \in TargetIds : UpdateConfigExplicit(i, id)

SpecCfg == InitCfg /\ [][NextCfg]_vars

\* ---- properties of the configuration rewrite ----

\* The last call completed.
Completed == updResult # Pending /\ updResult.outcome.kind = "return"

\* The node a call with this id addresses, in a realization.
NodeOf(ngen_realization, id) ==
    IF id = NoId THEN ngen_realization.global_config ELSE ngen_realization.catchments[id]

\* The models of a node: itself, or its modules.
ModulesOf(node) ==
    IF node.kind = "multi" THEN {node.modules[k] : k \in 1..Len(node.modules)} ELSE {node}

ModelNamesOf(node) == {m.model_name : m \in ModulesOf(node)}

\* What re-reading the written file gives for a (model, parameter) pair.
ReadBack(id, model, param) ==
    {m.model_params[1][param] :
        m \in {n \in ModulesOf(NodeOf(ParseConfig(workdir.config[1]), id)) :
                   /\ n.model_name = model
                   /\ n.model_params # <<>>
                   /\ param \in DOMAIN n.model_params[1]}}

\* The rows of the table that declare a pair.
PairRows(table, model, param) ==
    {r \in 1..Len(table.rows) : table.rows[r].model = model /\ table.rows[r].param = param}

\* C3 as stated: after update_config(i, params, id) completes on a table that has the
\* column str(i), re-reading the written configuration yields the value of that column
\* for every (sub-model, parameter) pair of the table.
C3_RoundTripEveryPair ==
    (Completed /\ updResult.i \in DOMAIN params.value.values) =>
        \A r \in 1..Len(params.value.rows) :
            LET row == params.value.rows[r] IN
            /\ ReadBack(updResult.id, row.model, row.param) # {}
            /\ ReadBack(updResult.id, row.model, row.param)
                   \subseteq {params.value.values[updResult.i][q] :
                                  q \in PairRows(params.value, row.model, row.param)}

\* C3 amended: after update_config(i, params, id) completes, re-reading the written
\* configuration yields the value of column str(i) for every (sub-model, parameter)
\* pair of the table whose sub-model is the addressed node's model or one of its
\* modules (the last row of a pair that is declared twice).
C3_RoundTripOfNodeModels ==
    Completed =>
        \A r \in 1..Len(params.value.rows) :
            LET row == params.value.rows[r] IN
            row.model \in ModelNamesOf(NodeOf(realization.ngen_realization, updResult.id)) =>
                /\ updResult.i \in DOMAIN params.value.values
                /\ ReadBack(updResult.id, row.model, row.param)
                       = {params.value.values[updResult.i][
                              SetMax(PairRows(params.value, row.model, row.param))]}

\* A completed rewrite of a composite node in which two modules declare the same
\* parameter name and read back different values.
C3_Witness ==
    /\ Completed
    /\ NodeOf(realization.ngen_realization, updResult.id).kind = "multi"
    /\ updResult.i \in DOMAIN params.value.values
    /\ \E r1, r2 \in 1..Len(params.value.rows) :
           /\ params.value.rows[r1].param = params.value.rows[r2].param
           /\ params.value.rows[r1].model = "CFE"
           /\ params.value.rows[r2].model = "NoahOWP"
           /\ ReadBack(updResult.id, "CFE", params.value.rows[r1].param)
                  = {params.value.values[updResult.i][r1]}
           /\ ReadBack(updResult.id, "NoahOWP", params.value.rows[r2].param)
                  = {params.value.values[updResult.i][r2]}

\* The last call asked for an iteration whose column the table does not have.
ColumnMissing ==
    /\ updResult # Pending
    /\ params # Unset /\ params.kind = "return"
    /\ updResult.i \notin DOMAIN params.value.values

RaisedKeyError == updResult.outcome.kind = "raise" /\ updResult.outcome.error.type = "KeyError"

\* The call got as far as NgenBase.update_config: NgenExplicit.update_config refuses
\* a call without an id before it looks at the table.
ReachedBase == realization.strategy = "explicit" => updResult.id # NoId

NeedsColumn ==
    /\ updResult.id = NoId \/ updResult.id \in DOMAIN realization.ngen_realization.catchments
    /\ LET node == NodeOf(realization.ngen_realization, updResult.id) IN
       \/ node.kind = "single"
       \/ ModelNamesOf(node) \cap GroupNames(params.value) # {}

UpdateStep ==
    \E i \in Iterations, id \in TargetIds : UpdateConfig(i, id) \/ UpdateConfigExplicit(i, id)

\* The files of a directory that the transient-output pattern names.
Transient(files) == {f \in files : f[2] = "NEXOUT.parquet"}

\* C13: clearing the transient output files is idempotent: a call of update_config
\* that completes leaves no file matching "*NEXOUT.parquet" and touches no other file;
\* made again when nothing matches, it changes no file, and a completed call repeated
\* with the same arguments completes again and leaves the directory as it is.
C13_ClearingIsIdempotent ==
    [][UpdateStep =>
          /\ updResult'.outcome.kind = "return" =>
                 /\ Transient(workdir'.files) = {}
                 /\ workdir'.files = workdir.files \ Transient(workdir.files)
                 /\ Transient(workdir.files) = {} => workdir'.files = workdir.files
          /\ (/\ Completed
              /\ Transient(workdir.files) = {}
              /\ updResult'.i = updResult.i
              /\ updResult'.id = updResult.id)
             => (updResult' = updResult /\ workdir' = workdir)]_vars

\* A completed call found transient files and removed them, and left the other file.
C13_Witness ==
    /\ Completed
    /\ Transient(workdir.files) = {}
    /\ <<"flowveldepth_", ".parquet">> \in workdir.files

(***************************************************************************)
(* One calibration iteration after another: update_config, the simulator   *)
(* run, TrouteOutput.get_output, ngen_cal_model_iteration_finish           *)
(***************************************************************************)

\* NgenBase.routing_output and other names t-route is configured to write.
DefaultRoutingOutput == [stem |-> "flowveldepth_Ngen", suffix |-> ".csv"]
RoutingOutputs ==
    {DefaultRoutingOutput,
     [stem |-> "troute_output_NEXOUT", suffix |-> ".parquet"],
     [stem |-> "troute_output", suffix |-> ".nc"]}

\* The name of a path as the directory listing has it: <<head, tail>>.
FileName(path) ==
    IF path.stem = "troute_output_NEXOUT" /\ path.suffix = ".parquet"
    THEN <<"troute_output_", "NEXOUT.parquet">>
    ELSE <<path.stem, path.suffix>>

\* What the simulator run of iteration k writes as routing output.
RunOutput(path, k) ==
    [path |-> path, exists |-> TRUE,
     header |-> IF path.suffix = ".csv" THEN HeaderStreamV2 ELSE NoHeader,
     rows |-> [l \in Locs |-> [t \in FileTimes |-> 10 * (k + 1) + l]]]

\* The parameter table with the column of every iteration filled in by the driver.
FilledTable(table) ==
    [table EXCEPT !.values = [j \in Iterations |->
                                 [r \in 1..Len(table.rows) |-> Proposal(r, j)]]]

InitIter ==
    /\ realization \in {r \in Realizations :
                            /\ r.strategy = "uniform"
                            /\ r.params = <<[model |-> "CFE", params |-> <<"a">>]>>
                            /\ r.ngen_realization.global_config \in {Cfe, MultiBMI(<<Sloth, Cfe>>)}}
    /\ params = Return(FilledTable(BuildTable(realization).value))
    /\ workdir \in {[config |-> <<RealizationFile(realization)>>, files |-> fs] :
                        fs \in WorkdirFiles}
    /\ updResult = Pending
    /\ troute \in [time : {SimTime}, eval_options : {Unset}, validation_options : {Unset},
                   settings : {Unset},
                   output_file : {[path |-> p, exists |-> FALSE, header |-> NoHeader,
                                   rows |-> <<>>] : p \in RoutingOutputs},
                   nexus : {[id |-> 3, contributing_catchments |-> <<1, 2>>]}]
    /\ goResult = Pending
    /\ stream = Unset
    /\ iteration \in [k : {0}, step : {"update"}, written : {<<>>}, save_output : BOOLEAN]
    /\ IdleHF
    /\ IdleStart
    /\ IdleRT
    /\ IdleTargets

\* The iteration starts: update_config(k, params) on the global configuration.
IterUpdate ==
    /\ iteration # Unset /\ iteration.step = "update"
    /\ LET done == update_config(realization.ngen_realization, params.value, workdir,
                                 iteration.k, NoId)
       IN  /\ realization' = [realization EXCEPT !.ngen_realization = done.ngen_realization]
           /\ workdir' = done.workdir
           /\ updResult' = [outcome |-> done.outcome, i |-> iteration.k, id |-> NoId]
           /\ iteration' = [iteration EXCEPT
                               !.step = IF done.outcome.kind = "raise" THEN "failed" ELSE "run"]
    /\ UNCHANGED <<params, troute, goResult, stream, hfVars, startVars, rtVars, targetVars>>

\* The simulator runs; it writes its routing output, or ends without writing any.
IterRun(writes) ==
    /\ iteration # Unset /\ iteration.step = "run"
    /\ IF writes
       THEN /\ workdir' = [workdir EXCEPT !.files = @ \cup {FileName(troute.output_file.path)}]
            /\ troute' = [troute EXCEPT !.output_file = RunOutput(@.path, iteration.k)]
            /\ iteration' = [iteration EXCEPT !.step = "output", !.written = <<iteration.k>>]
       ELSE /\ iteration' = [iteration EXCEPT !.step = "output"]
            /\ UNCHANGED <<workdir, troute>>
    /\ UNCHANGED <<realization, params, updResult, goResult, stream, hfVars, startVars, rtVars, targetVars>>

\* The plugin as it finds the directory: the output file exists if it is listed.
TrouteOnDisk ==
    [troute EXCEPT !.output_file.exists = FileName(troute.output_file.path) \in workdir.files]

\* ngen_cal_model_output of the iteration
IterGetOutput ==
    /\ iteration # Unset /\ iteration.step = "output"
    /\ goResult' = get_output(TrouteOnDisk)
    /\ iteration' = [iteration EXCEPT !.step = "finish"]
    /\ UNCHANGED <<troute, stream, realization, params, workdir, updResult, hfVars, startVars, rtVars, targetVars>>

\* NgenSaveOutput.ngen_cal_model_iteration_finish: rpath.rename(out_dir / rpath.name)
\* moves flowveldepth_Ngen.csv away and fails when there is no such file.
iteration_finish(files) ==
    IF FileName(DefaultRoutingOutput) \in files
    THEN Return(files \ {FileName(DefaultRoutingOutput)})
    ELSE Raise(Err("FileNotFoundError", "rename", FileName(DefaultRoutingOutput), "finish"))

\* The iteration ends, with NgenSaveOutput's hook when that plugin is registered; the
\* driver goes on to the next iteration.
IterFinish ==
    /\ iteration # Unset /\ iteration.step = "finish"
    /\ LET moved == IF iteration.save_output THEN iteration_finish(workdir.files)
                    ELSE Return(workdir.files)
       IN  IF moved.kind = "raise"
           THEN /\ iteration' = [iteration EXCEPT !.step = "failed"]
                /\ UNCHANGED workdir
           ELSE /\ workdir' = [workdir EXCEPT !.files = moved.value]
                /\ iteration' = [iteration EXCEPT
                                    !.step = IF iteration.k < MaxIter THEN "update" ELSE "done",
                                    !.k = IF iteration.k < MaxIter THEN @ + 1 ELSE @]
    /\ UNCHANGED <<troute, goResult, stream, realization, params, updResult, hfVars, startVars, rtVars, targetVars>>

NextIter ==
    \/ IterUpdate
    \/ \E writes \in BOOLEAN : IterRun(writes)
    \/ IterGetOutput
    \/ IterFinish

SpecIter == InitIter /\ [][NextIter]_vars

\* C14: no stale read: a series that get_output returns in iteration k comes from the
\* routing output that the simulator run of iteration k wrote; when that run wrote
\* none, get_output returns None or raises.
C14_NoStaleRead ==
    (/\ iteration # Unset
     /\ iteration.step = "finish"
     /\ goResult.kind = "return")
    => iteration.written = <<iteration.k>>

(***************************************************************************)
(* Construction of the Ngen model: NgenBase.__init__ and its validators   *)
(***************************************************************************)

\* A path argument: not given, a path where no file is, or the path of a file.
PathArgs == {"none", "nofile", "file"}
PathFields == {"hydrofabric", "catchments", "nexus", "crosswalk", "partitions"}

\* pydantic's ValidationError is a ValueError.
IsValueError(outcome) ==
    outcome.kind = "raise" /\ outcome.error.type \in {"ValueError", "ValidationError"}

\* root_validator(pre=True): sees the arguments as they were given
check_for_partitions(kwargs) ==
    IF kwargs.parallel # <<>> /\ kwargs.parallel[1] > 1 /\ kwargs.partitions = "none"
    THEN Raise(Err("ValueError", "Must provide partitions if using parallel", "partitions",
                   "check_for_partitions"))
    ELSE Return(kwargs)

\* Field validation: an Optional[FilePath] is in `values` when its file exists (TRUE);
\* values.get() of a field not given, or of one that failed validation, is None (FALSE).
FieldValues(kwargs) ==
    [hydrofabric |-> kwargs.hydrofabric = "file",
     catchments |-> kwargs.catchments = "file",
     nexus |-> kwargs.nexus = "file",
     crosswalk |-> kwargs.crosswalk = "file",
     partitions |-> kwargs.partitions = "file",
     parallel |-> kwargs.parallel,
     binary |-> "ngen",
     args |-> kwargs.args,
     ngen_realization |-> kwargs.ngen_realization]

FieldErrors(kwargs) == {f \in PathFields : kwargs[f] = "nofile"}

\* root_validator set_defaults: args from the hydrofabric, or from catchments and nexus
set_defaults(values) ==
    IF values.args = "none" /\ ~values.hydrofabric /\ ~values.catchments
    THEN Raise(Err("AttributeError", "'NoneType' object has no attribute 'resolve'",
                   "catchments", "set_defaults"))
    ELSE IF values.args = "none" /\ ~values.hydrofabric /\ ~values.nexus
    THEN Raise(Err("AttributeError", "'NoneType' object has no attribute 'resolve'",
                   "nexus", "set_defaults"))
    ELSE LET custom_args == values.args # "none"
             args == IF custom_args THEN values.args
                     ELSE IF values.hydrofabric THEN "hydrofabric all hydrofabric all realization"
                     ELSE "catchments all nexus all realization"
         IN  IF values.parallel # <<>> /\ values.partitions
             THEN Return([values EXCEPT !.binary = "mpirun -n parallel ngen",
                                        !.args = IF custom_args THEN args
                                                 ELSE IF values.hydrofabric
                                                 THEN "hydrofabric all hydrofabric all realization partitions"
                                                 ELSE "catchments all nexus all realization partitions"])
             ELSE Return([values EXCEPT !.args = args])

_verify_hydrofabric(values) ==
    IF ~values.hydrofabric /\ ~values.catchments /\ ~values.nexus /\ ~values.crosswalk
    THEN Raise(Err("ValueError", "Must provide a geopackage input with the hydrofabric key",
                   "hydrofabric", "_verify_hydrofabric"))
    ELSE Return(values)

\* realization: <<>> (None) or <<[output_root |-> is it set]>>
_verify_ngen_realization(ngen_realization) ==
    IF ngen_realization = <<>> THEN Return(ngen_realization)
    ELSE IF ngen_realization[1].output_root
    THEN Raise(Err("UnsupportedFeatureError", "ngen realization output_root field is not supported by ngen.cal",
                   "output_root", "_verify_ngen_realization"))
    ELSE Return(ngen_realization)

\* root_validator _validate_model
_validate_model(values) ==
    LET hf == _verify_hydrofabric(values)
        rz == _verify_ngen_realization(values.ngen_realization)
    IN  IF hf.kind = "raise" THEN hf
        ELSE IF rz.kind = "raise" THEN rz
        ELSE Return(values)

\* pydantic's validate_model: the pre root validator ends validation if it raises; the
\* fields; then every root validator in the order of definition. A ValueError of a
\* validator joins the errors of the ValidationError, any other exception leaves as it is.
validate_model(kwargs) ==
    LET pre == check_for_partitions(kwargs)
        invalid == Raise(Err("ValidationError", "validation errors for NgenBase", "kwargs",
                             "validate_model"))
        defaults == set_defaults(FieldValues(kwargs))
    IN  IF pre.kind = "raise" THEN invalid
        ELSE IF defaults.kind = "raise" THEN defaults
        ELSE LET model == _validate_model(defaults.value)
             IN  IF model.kind = "raise" /\ model.error.type # "ValueError" THEN model
                 ELSE IF model.kind = "raise" \/ FieldErrors(kwargs) # {} THEN invalid
                 ELSE model

_read_legacy_geojson_hydrofabric(values) ==
    IF ~values.catchments
    THEN Raise(Err("AssertionError", "missing geojson catchments file", "catchments",
                   "_read_legacy_geojson_hydrofabric"))
    ELSE IF ~values.nexus
    THEN Raise(Err("AssertionError", "missing geojson nexus file", "nexus",
                   "_read_legacy_geojson_hydrofabric"))
    ELSE IF ~values.crosswalk
    THEN Raise(Err("AssertionError", "missing crosswalk file", "crosswalk",
                   "_read_legacy_geojson_hydrofabric"))
    ELSE Return(values)

\* NgenBase.__init__: validation, then the hydrofabric (a geopackage given is taken to be
\* readable), then the realization file is loaded into ngen_realization.
NgenBase_init(kwargs, realization_file) ==
    LET validated == validate_model(kwargs)
    IN  IF validated.kind = "raise" THEN validated
        ELSE LET fabric == IF validated.value.hydrofabric THEN validated
                           ELSE _read_legacy_geojson_hydrofabric(validated.value)
             IN  IF fabric.kind = "raise" THEN fabric
                 ELSE Return([fabric.value EXCEPT
                                 !.ngen_realization = <<[output_root |-> realization_file.output_root]>>])

ConstructNgenBase ==
    /\ load # Unset
    /\ load.outcome = Pending
    /\ load' = [load EXCEPT !.outcome = NgenBase_init(load.kwargs, load.realization_file)]
    /\ UNCHANGED <<gpkgTables, hfResult, rtVars, targetVars, goVars, cfgVars, startVars>>

LoadKwargs ==
    [hydrofabric : PathArgs, catchments : PathArgs, nexus : PathArgs, crosswalk : PathArgs,
     partitions : {"none", "file"}, parallel : {<<>>, <<2>>},
     args : {"none", "--custom"},
     ngen_realization : {<<>>, <<[output_root |-> FALSE]>>, <<[output_root |-> TRUE]>>}]

InitLoad ==
    /\ load \in [kwargs : LoadKwargs, realization_file : [output_root : BOOLEAN],
                 outcome : {Pending}]
    /\ gpkgTables = {}
    /\ hfResult = Pending
    /\ IdleRT
    /\ IdleStart
    /\ IdleGO
    /\ IdleTargets
    /\ IdleCfg

NextLoad == ConstructNgenBase

SpecLoad == InitLoad /\ [][NextLoad]_vars

\* C15: no constructed model holds an ngen_realization with output_root set: a
\* realization file that sets output_root makes construction raise.
C15_OutputRootRejectedAtLoad ==
    (load # Unset /\ load.outcome.kind = "return")
    => ~load.outcome.value.ngen_realization[1].output_root

\* C18: on the legacy path (no hydrofabric given), construction raises a ValueError
\* whenever the catchment, nexus or crosswalk file is not given, in every combination.
C18_LegacyMissingFileIsValueError ==
    (/\ load # Unset
     /\ load.outcome # Pending
     /\ load.kwargs.hydrofabric = "none"
     /\ "none" \in {load.kwargs.catchments, load.kwargs.nexus, load.kwargs.crosswalk})
    => IsValueError(load.outcome)

\* df.loc[key]: the positions of the rows a lookup (or an assignment) by index reaches
Loc(table, key) == {r \in 1..Len(table.rows) : table.rows[r].p = key}

\* C17: in the parameter table, a parameter name declared under two different models
\* gives two rows with distinct index keys, and a lookup or update by the index key of
\* one of them reaches that row only.
C17_SameNameDistinctIndex ==
    (params # Unset /\ params.kind = "return")
    => \A r1, r2 \in 1..Len(params.value.rows) :
           (/\ params.value.rows[r1].param = params.value.rows[r2].param
            /\ params.value.rows[r1].model # params.value.rows[r2].model)
           => /\ params.value.rows[r1].p # params.value.rows[r2].p
              /\ r2 \notin Loc(params.value, params.value.rows[r1].p)

(***************************************************************************)
(* The handler of a text stream v2 file: _stream_output_csv_v2             *)
(*                                                                         *)
(* The file is the sequence of its data rows under the header              *)
(* ",,current_time,flow,velocity,depth,nudge": the waterbody id of the     *)
(* first, unnamed column, the text of current_time, and the flow in tenths.*)
(***************************************************************************)

MaxStreamRows == 2

WaterbodyIds == {6680, 6681}
TimeTexts == {"2010-10-01 01:00:00", "2010-10-01 1:00:00", "2010-10-01 02:00:00"}
FlowTenths == {0, 15}

\* pd.to_datetime of a current_time text: hours after 2010-10-01 00:00:00
ToDatetime(text) ==
    CASE text = "2010-10-01 01:00:00" -> 1
      [] text = "2010-10-01 1:00:00" -> 1
      [] text = "2010-10-01 02:00:00" -> 2

\* df = pd.read_csv(p); df["value_time"] = pd.to_datetime(df["current_time"]);
\* rename flow -> value and the first column -> waterbody_code; set_index("value_time")
StreamV2Frame(csv) ==
    [r \in 1..Len(csv) |->
        [value_time |-> ToDatetime(csv[r].current_time),
         waterbody_code |-> csv[r].code,
         value |-> csv[r].flow]]

\* The mutant: the mask keeps every row.
StreamV2MaskAll(df, id) == [r \in 1..Len(df) |-> TRUE]

\* df["waterbody_code"] == id
StreamV2Mask(df, id) == [r \in 1..Len(df) |-> df[r].waterbody_code = id]

\* df.loc[mask, "value"]: the value of the rows the mask keeps, under their index
RECURSIVE LocMasked(_, _, _)
LocMasked(df, mask, r) ==
    IF r > Len(df) THEN <<>>
    ELSE (IF mask[r] THEN <<[value_time |-> df[r].value_time, value |-> df[r].value]>>
          ELSE <<>>) \o LocMasked(df, mask, r + 1)

\* the handler's get_output(id)
StreamV2GetOutput(df, id) == LocMasked(df, StreamV2Mask(df, id), 1)

StreamRows == [code : WaterbodyIds, current_time : TimeTexts, flow : FlowTenths]

InitStream ==
    /\ stream \in [csv : UNION {[1..n -> StreamRows] : n \in 0..MaxStreamRows},
                   df : {Pending}, result : {Pending}]
    /\ troute = Unset
    /\ goResult = Pending
    /\ IdleHF
    /\ IdleStart
    /\ IdleRT
    /\ IdleTargets
    /\ IdleCfg

\* _stream_output_csv_v2(p): the file is read once, the handler closes over the frame
ReadStreamV2 ==
    /\ stream # Unset /\ stream.df = Pending
    /\ stream' = [stream EXCEPT !.df = Return(StreamV2Frame(stream.csv))]
    /\ UNCHANGED <<troute, goResult, hfVars, startVars, rtVars, targetVars, cfgVars>>

\* a call of the handler
CallStreamV2(id) ==
    /\ stream # Unset /\ stream.df # Pending
    /\ stream' = [stream EXCEPT !.result = [id |-> id, series |-> StreamV2GetOutput(stream.df.value, id)]]
    /\ UNCHANGED <<troute, goResult, hfVars, startVars, rtVars, targetVars, cfgVars>>

NextStream ==
    \/ ReadStreamV2
    \/ \E id \in WaterbodyIds : CallStreamV2(id)

SpecStream == InitStream /\ [][NextStream]_vars

\* The positions of the file's rows of waterbody id, and the rank of one among them.
RowsWithId(csv, id) == {r \in 1..Len(csv) : csv[r].code = id}
RankAmong(S, r) == Cardinality({q \in S : q <= r})

\* C20: get_output(id) of a text stream v2 file has one entry for every row of the
\* file whose waterbody id is id, in file order, with that row's flow under that row's
\* current_time, and no entry of another waterbody; one row for 6680 at 2010-10-01
\* 01:00:00 with flow 1.5 gives the single entry 1.5 at that time.
C20_StreamV2RowsOfId ==
    (stream # Unset /\ stream.result # Pending)
    => LET mine == RowsWithId(stream.csv, stream.result.id)
           series == stream.result.series
       IN  /\ Len(series) = Cardinality(mine)
           /\ \A r \in mine :
                  /\ series[RankAmong(mine, r)].value = stream.csv[r].flow
                  /\ series[RankAmong(mine, r)].value_time
                         = ToDatetime(stream.csv[r].current_time)
           /\ (/\ stream.csv = <<[code |-> 6680, current_time |-> "2010-10-01 01:00:00",
                                  flow |-> 15]>>
               /\ stream.result.id = 6680)
              => series = <<[value_time |-> 1, value |-> 15]>>

\* C20 witness: a file with rows of two waterbodies, asked for one of them.
C20_Witness ==
    /\ stream # Unset /\ stream.result # Pending
    /\ Len(stream.csv) = 2
    /\ stream.csv[1].code # stream.csv[2].code
    /\ stream.result.id = 6680
    /\ Len(stream.result.series) = 1

\* C21: the series a parser returns for one location id has strictly increasing,
\* unique timestamps; a file with two records of the same id and timestamp does not
\* come out as a series with a duplicate timestamp.
C21_TimestampsStrictlyIncreasing ==
    (stream # Unset /\ stream.result # Pending)
    => \A k \in 1..(Len(stream.result.series) - 1) :
           stream.result.series[k].value_time < stream.result.series[k + 1].value_time

(***************************************************************************)
(* NgenIndependent.__init__: the forcing file of every catchment           *)
(*                                                                         *)
(* A file name and a pattern are sequences of pieces of text; ".*" in a    *)
(* pattern stands for any pieces, "{{id}}" and "{{ID}}" for the catchment  *)
(* id.  cat-10.csv is <<"cat-1", "0", ".csv">>: it starts like cat-1.      *)
(***************************************************************************)

MaxDirFiles == 2

\* pattern.replace("{{id}}", id) and then .replace("{{ID}}", id)
ReplaceTokens(pattern, id) ==
    [k \in 1..Len(pattern) |-> IF pattern[k] \in {"{{id}}", "{{ID}}"} THEN id ELSE pattern[k]]

\* re.compile(pattern).match(name): the pattern matches at the start of the name,
\* the name may go on after it.
RECURSIVE ReMatch(_, _, _, _)
ReMatch(pattern, name, i, j) ==
    IF i > Len(pattern) THEN TRUE
    ELSE IF pattern[i] = ".*"
    THEN \E k \in j..(Len(name) + 1) : ReMatch(pattern, name, i + 1, k)
    ELSE j <= Len(name) /\ name[j] = pattern[i] /\ ReMatch(pattern, name, i + 1, j + 1)

\* for f in path.iterdir(): if pattern.match(f.name): forcing.path = f.resolve()
RECURSIVE IterdirLoop(_, _, _, _)
IterdirLoop(pattern, listing, k, path) ==
    IF k > Len(listing) THEN path
    ELSE IterdirLoop(pattern, listing, k + 1,
                     IF ReMatch(pattern, listing[k], 1, 1)
                     THEN [dir |-> path.dir, file |-> <<listing[k]>>] ELSE path)

\* The forcing of catchment id: the global forcing with file_pattern cleared and, when
\* there was a pattern, the path set from the directory.  A pattern None is <<>>.
CatchmentForcing(global, listing, id) ==
    [file_pattern |-> <<>>,
     path |-> IF global.file_pattern = <<>> THEN global.path
              ELSE IterdirLoop(ReplaceTokens(global.file_pattern[1], id), listing, 1, global.path)]

ForcingPatterns ==
    {<<>>, <<<<"{{id}}", ".csv">>>>, <<<<"{{id}}", ".*", ".csv">>>>, <<<<".*", "{{ID}}", ".*">>>>,
     <<<<"forcing", ".csv">>>>}

ForcingFileNames ==
    {<<"cat-1", ".csv">>, <<"cat-1", "0", ".csv">>, <<"cat-2", ".csv">>,
     <<"x", "cat-1", ".csv">>, <<"cat-1", "_b", ".csv">>}

\* The directory as iterdir() lists it: distinct names, in any order.
DirListings ==
    {l \in UNION {[1..n -> ForcingFileNames] : n \in 0..MaxDirFiles} :
        \A a, b \in 1..Len(l) : a # b => l[a] # l[b]}

InitForcing ==
    /\ forcing \in [global : [file_pattern : ForcingPatterns,
                              path : {[dir |-> "forcing", file |-> <<>>]}],
                    listing : DirListings,
                    index : {<<"cat-1">>, <<"cat-1", "cat-2">>, <<"cat-2", "cat-1">>},
                    catchments : {Pending}]
    /\ ngen = Unset
    /\ built = Pending
    /\ IdleHF
    /\ IdleStart
    /\ IdleRT
    /\ IdleGO
    /\ IdleCfg

\* for id in self._catchment_hydro_fabric.index: ...
ResolveForcing ==
    /\ forcing # Unset /\ forcing.catchments = Pending
    /\ forcing' = [forcing EXCEPT !.catchments =
                      Return([k \in 1..Len(forcing.index) |->
                                 [id |-> forcing.index[k],
                                  forcing |-> CatchmentForcing(forcing.global, forcing.listing,
                                                               forcing.index[k])]])]
    /\ UNCHANGED <<ngen, built, hfVars, startVars, rtVars, goVars, cfgVars>>

NextForcing == ResolveForcing

SpecForcing == InitForcing /\ [][NextForcing]_vars

\* The positions in the listing of the files that match the pattern for catchment id.
MatchingFiles(id) ==
    {k \in 1..Len(forcing.listing) :
        ReMatch(ReplaceTokens(forcing.global.file_pattern[1], id), forcing.listing[k], 1, 1)}

\* C22: with a file pattern, every catchment's forcing path is the first file of the
\* directory listing that matches the pattern for its id, later matching files do not
\* take its place; with no matching file the path stays and construction goes on.
C22_FirstMatchingFileSelected ==
    (/\ forcing # Unset
     /\ forcing.catchments # Pending
     /\ forcing.global.file_pattern # <<>>)
    => /\ forcing.catchments.kind = "return"
       /\ \A k \in 1..Len(forcing.index) :
              LET matching == MatchingFiles(forcing.index[k])
                  path == forcing.catchments.value[k].forcing.path
              IN  IF matching = {} THEN path = forcing.global.path
                  ELSE /\ path.file # <<>>
                       /\ \E m \in matching :
                              /\ path.file[1] = forcing.listing[m]
                              /\ \A n \in matching : m <= n

\* The chosen output file is of a supported format, well-formed, and its handler was made.
SupportedFormat(file, time) ==
    /\ \/ Lower(file.path.suffix) \in {".nc", ".parquet"}
       \/ /\ Lower(file.path.suffix) = ".csv"
          /\ file.header \in {HeaderCsvV1, HeaderStreamV1, HeaderStreamV2}
    /\ _output_handler_factory(file, time).kind = "return"

\* C23: for every supported format the handler of the format detector takes the
\* numeric suffix ids get_output passes: when the file holds records of the nexus'
\* contributing catchments, get_output returns their non-empty series and does not fail.
C23_EveryFormatServesNumericId ==
    LET file == ChosenFile(troute) IN
    (/\ goResult # Pending
     /\ DetectionReached(troute)
     /\ SupportedFormat(file, troute.time)
     /\ \A c \in Range(troute.nexus.contributing_catchments) : RowsOf(file, c) # EmptySeries)
    => /\ goResult.kind = "return"
       /\ goResult.aggregated # EmptySeries

\* The text encoding the header rules name, read by columns: the quoted-tuple prefix,
\* else a column t0, else a column current_time.
EncodingByColumns(header) ==
    IF StartsWithCsvV1Prefix(header) THEN "csv_output_v1"
    ELSE IF HasColumn(header, "t0") THEN "stream_output_csv_v1"
    ELSE IF HasColumn(header, "current_time") THEN "stream_output_csv_v2"
    ELSE "none"

\* C24: the header rules of a text file apply top to bottom, first match wins: the
\* quoted-tuple prefix gives text v1, else a column t0 gives stream v1, else a column
\* current_time gives stream v2; only a header that has a column named t0 is taken as
\* stream v1, and one with t0 and current_time is stream v1.
C24_HeaderRulesFirstMatch ==
    LET file == ChosenFile(troute) IN
    (/\ goResult # Pending
     /\ DetectionReached(troute)
     /\ Lower(file.path.suffix) = ".csv")
    => /\ goResult.kind = "return" => goResult.handler = EncodingByColumns(file.header)
       /\ (EncodingByColumns(file.header) = "stream_output_csv_v2" /\ HasColumn(file.header, "flow"))
          => /\ goResult.kind = "return"
             /\ goResult.handler = "stream_output_csv_v2"
       /\ EncodingByColumns(file.header) = "none"
          => /\ goResult.kind = "raise"
             /\ goResult.error.site = "factory"

\* C25: a call of update_config that raises (no column of the iteration, a
\* single-model node without rows in the table, NgenExplicit.update_config with id
\* None) leaves the configuration file as it was and deletes no output file.
C25_FailedUpdateLeavesFiles ==
    [][(UpdateStep /\ updResult'.outcome.kind = "raise") => workdir' = workdir]_vars

\* C25 witness: a call raised in a working directory that holds transient output files.
C25_Witness ==
    /\ updResult # Pending
    /\ updResult.outcome.kind = "raise"
    /\ Transient(workdir.files) # {}
    /\ workdir.config = <<RealizationFile(realization)>>

\* C26: a completed update_config on a composite node changes the parameter maps of
\* the sub-models with rows in the table and nothing else: a sub-model without rows
\* keeps its map, the other nodes (the other catchments, the global node when a
\* catchment id is given) stay as they are, and a sub-model with rows gets as its map
\* the table's parameters of that model with their values of column str(i), without
\* the entries it had before.
C26_CompositeUpdateFrame ==
    [][(/\ UpdateStep
        /\ updResult'.outcome.kind = "return"
        /\ NodeOf(realization.ngen_realization, updResult'.id).kind = "multi")
       => LET id == updResult'.id
              i == updResult'.i
              table == params.value
              old == NodeOf(realization.ngen_realization, id)
              new == NodeOf(realization'.ngen_realization, id)
          IN  /\ new.kind = "multi"
              /\ Len(new.modules) = Len(old.modules)
              /\ \A k \in 1..Len(old.modules) :
                     LET rows == {r \in 1..Len(table.rows) :
                                     table.rows[r].model = old.modules[k].model_name}
                     IN  IF rows = {} THEN new.modules[k] = old.modules[k]
                         ELSE /\ new.modules[k].model_name = old.modules[k].model_name
                              /\ new.modules[k].model_params # <<>>
                              /\ DOMAIN new.modules[k].model_params[1]
                                     = {table.rows[r].param : r \in rows}
                              /\ \A key \in DOMAIN new.modules[k].model_params[1] :
                                     \E r \in rows :
                                         /\ table.rows[r].param = key
                                         /\ new.modules[k].model_params[1][key]
                                                = table.values[i][r]
              /\ IF id = NoId
                 THEN realization'.ngen_realization.catchments
                          = realization.ngen_realization.catchments
                 ELSE /\ realization'.ngen_realization.global_config
                             = realization.ngen_realization.global_config
                      /\ \A c \in DOMAIN realization.ngen_realization.catchments \ {id} :
                             realization'.ngen_realization.catchments[c]
                                 = realization.ngen_realization.catchments[c]]_vars

\* C26 witness: a completed update of a composite node with a sub-model that has no
\* rows and one that has rows and lost the entry z it had before.
C26_Witness ==
    /\ Completed
    /\ params # Unset /\ params.kind = "return"
    /\ LET node == NodeOf(realization.ngen_realization, updResult.id) IN
       /\ node.kind = "multi"
       /\ \E k \in 1..Len(node.modules) :
              node.modules[k].model_name \notin GroupNames(params.value)
       /\ \E k \in 1..Len(node.modules) :
              /\ node.modules[k].model_name \in GroupNames(params.value)
              /\ node.modules[k].model_params # <<>>
              /\ "z" \notin DOMAIN node.modules[k].model_params[1]

\* Whether get_output reads the validation output file.
ValidationFileUsed(t) == t.settings # Unset /\ t.settings.validation_routing_output.exists

\* The end of the interval selected: the validation interval for the validation file,
\* else the evaluation interval, else the end of the simulation.
SelectedEnd(t) ==
    IF ValidationFileUsed(t) /\ t.validation_options # Unset THEN t.validation_options.stop
    ELSE IF t.eval_options # Unset /\ t.eval_options.evaluation_start # <<>>
    THEN t.eval_options.evaluation_stop[1]
    ELSE t.time.end_time

MaxAdjustables == 3
MaxStart == 3

\* starts = []; for catchment in self.adjustables: starts.append(catchment.restart())
RECURSIVE RestartLoop(_, _)
RestartLoop(adjustables, k) ==
    IF k > Len(adjustables) THEN <<>>
    ELSE <<adjustables[k].restart>> \o RestartLoop(adjustables, k + 1)

\* all(x == starts[0] for x in starts)
RECURSIVE AllEqualFirst(_, _)
AllEqualFirst(starts, k) ==
    IF k > Len(starts) THEN TRUE
    ELSE starts[k] = starts[1] /\ AllEqualFirst(starts, k + 1)

\* The iteration returned when the agreement of the adjustables is not asked for.
RestartResultFirst(starts) ==
    IF starts # <<>> THEN starts[1] ELSE 0

\* if starts and all(...): return starts[0]   else: return 0
RestartResult(starts) ==
    IF starts # <<>> /\ AllEqualFirst(starts, 1) THEN starts[1] ELSE 0

RestartValues(n) == [1..n -> [restart : 0..MaxStart]]

InitRestart ==
    /\ restart \in [adjustables : UNION {RestartValues(n) : n \in 0..MaxAdjustables},
                     calls : {<<>>}, outcome : {Pending}]
    /\ namelist = Unset
    /\ IdleHF
    /\ IdleRT
    /\ IdleGO
    /\ IdleTargets
    /\ IdleCfg

\* Ngen.restart(): one restart() call on each adjustable, in order, then the verdict.
NgenRestart ==
    /\ restart # Unset /\ restart.outcome = Pending
    /\ LET starts == RestartLoop(restart.adjustables, 1)
       IN  restart' = [restart EXCEPT
                          !.calls = [k \in 1..Len(starts) |-> k],
                          !.outcome = Return(RestartResult(starts))]
    /\ UNCHANGED <<namelist, hfVars, rtVars, targetVars, goVars, cfgVars>>

NextRestart == NgenRestart

SpecRestart == InitRestart /\ [][NextRestart]_vars

\* C28: Ngen.restart returns an iteration n other than 0 only when there is at least
\* one adjustable and the restart() of every adjustable returned that n; with no
\* adjustable or with two adjustables that disagree it returns 0; restart() is called
\* on every adjustable exactly once.
C28_RestartAgreedIterationOrZero ==
    (restart # Unset /\ restart.outcome # Pending) =>
        LET adj == restart.adjustables
            agreed == /\ adj # <<>>
                      /\ \A a, b \in 1..Len(adj) : adj[a].restart = adj[b].restart
        IN  /\ restart.outcome.kind = "return"
            /\ agreed => restart.outcome.value = adj[1].restart
            /\ ~agreed => restart.outcome.value = 0
            /\ \A a \in 1..Len(adj) :
                   Cardinality({c \in 1..Len(restart.calls) : restart.calls[c] = a}) = 1
            /\ \A c \in 1..Len(restart.calls) : restart.calls[c] \in 1..Len(adj)

C28_Witness ==
    /\ restart # Unset /\ restart.outcome # Pending
    /\ Len(restart.adjustables) = 3
    /\ restart.adjustables[1].restart = 2
    /\ restart.adjustables[2].restart = 2
    /\ restart.adjustables[3].restart = 1
    /\ restart.outcome = Return(0)

(***************************************************************************)
(* Parameter files of Snow17 and Sac-SMA: Snow17Params._parse,             *)
(* SacSmaParams._parse                                                     *)
(***************************************************************************)

AdcCount == 11

\* A field name is <<name>>, and <<"adc", i>> for the name adc followed by i.
Snow17Fields ==
    {<<"hru_area">>, <<"latitude">>, <<"elev">>, <<"scf">>, <<"mfmax">>, <<"mfmin">>,
     <<"uadj">>, <<"si">>, <<"pxtemp">>, <<"nmf">>, <<"tipm">>, <<"mbase">>, <<"plwhc">>,
     <<"daygm">>}

SacSmaFields ==
    {<<"hru_area">>, <<"uztwm">>, <<"uzfwm">>, <<"lztwm">>, <<"lzfpm">>, <<"lzfsm">>,
     <<"adimp">>, <<"uzk">>, <<"lzpk">>, <<"lzsk">>, <<"zperc">>, <<"rexp">>, <<"pctim">>,
     <<"pfree">>, <<"riva">>, <<"side">>, <<"rserv">>}

ParamFields(cls) == IF cls = "Snow17Params" THEN Snow17Fields ELSE SacSmaFields

\* field.startswith("adc"), which only Snow17Params._parse asks
StartsWithAdc(cls, field) == cls = "Snow17Params" /\ field[1] = "adc"

\* The fields an object of the class cannot be built without.
RequiredFields(cls) ==
    ParamFields(cls) \cup
        (IF cls = "Snow17Params" THEN {<<"adc", i>> : i \in 1..AdcCount} ELSE {})

\* while (line := reader.readline()) != "": ...
RECURSIVE ParseLines(_, _, _, _, _, _)
ParseLines(cls, lines, k, data, adc, count) ==
    IF k > Len(lines) THEN [data |-> data, adc |-> adc, count |-> count]
    ELSE LET field == lines[k].field
             value == lines[k].value
         IN  IF StartsWithAdc(cls, field)
             THEN ParseLines(cls, lines, k + 1, data, [adc EXCEPT ![field[2]] = value],
                             count + 1)
             ELSE IF field \in ParamFields(cls)
             THEN ParseLines(cls, lines, k + 1,
                             [f \in DOMAIN data \cup {field} |->
                                 IF f = field THEN value ELSE data[f]],
                             adc, count + 1)
             ELSE ParseLines(cls, lines, k + 1, data, adc, count)

\* cls(**data): every declared field is required
ConstructParams(cls, data, adc) ==
    IF ParamFields(cls) \ DOMAIN data # {}
    THEN Raise(Err("ValidationError", "field required", ParamFields(cls) \ DOMAIN data,
                   "cls(**data)"))
    ELSE Return([cls |-> cls, data |-> data,
                 adc |-> IF cls = "Snow17Params" THEN adc ELSE <<>>])

\* Snow17Params._parse, SacSmaParams._parse
_parse(cls, lines) ==
    LET read == ParseLines(cls, lines, 1, <<>>, [i \in 1..AdcCount |-> 0], 0)
        expected == Cardinality(ParamFields(cls))
                        + (IF cls = "Snow17Params" THEN AdcCount ELSE 0)
    IN  IF read.count # expected
        THEN Raise(Err("RuntimeError", "missing fields: ",
                       ParamFields(cls) \ DOMAIN read.data, "_parse"))
        ELSE ConstructParams(cls, read.data, read.adc)

\* The file to_str writes: hru_id, the fields, then adc1..adc11; line k holds value k.
CompleteFile(cls) ==
    LET names == IF cls = "Snow17Params"
                 THEN <<<<"hru_id">>, <<"hru_area">>, <<"latitude">>, <<"elev">>, <<"scf">>,
                        <<"mfmax">>, <<"mfmin">>, <<"uadj">>, <<"si">>, <<"pxtemp">>,
                        <<"nmf">>, <<"tipm">>, <<"mbase">>, <<"plwhc">>, <<"daygm">>>>
                      \o [i \in 1..AdcCount |-> <<"adc", i>>]
                 ELSE <<<<"hru_id">>, <<"hru_area">>, <<"uztwm">>, <<"uzfwm">>, <<"lztwm">>,
                        <<"lzfpm">>, <<"lzfsm">>, <<"adimp">>, <<"uzk">>, <<"lzpk">>,
                        <<"lzsk">>, <<"zperc">>, <<"rexp">>, <<"pctim">>, <<"pfree">>,
                        <<"riva">>, <<"side">>, <<"rserv">>>>
    IN  [k \in 1..Len(names) |-> [field |-> names[k], value |-> k]]

NoField == <<"">>

\* The files read: the complete file with at most one field left out and at most one
\* line written a second time, with another value, at the end.
ParamFiles(cls) ==
    {LET kept == CompleteFile(cls)
         left == SelectSeq(kept, LAMBDA l : l.field # dropped)
         again == SelectSeq(kept, LAMBDA l : l.field = repeated)
     IN  left \o [k \in 1..Len(again) |-> [again[k] EXCEPT !.value = @ + Len(kept)]] :
        dropped \in RequiredFields(cls) \cup {NoField},
        repeated \in (RequiredFields(cls) \cup {NoField})}

InitParams ==
    /\ namelist \in UNION {[cls : {cls}, lines : ParamFiles(cls), parsed : {Pending}] :
                              cls \in {"Snow17Params", "SacSmaParams"}}
    /\ restart = Unset
    /\ IdleHF
    /\ IdleRT
    /\ IdleGO
    /\ IdleTargets
    /\ IdleCfg

\* Snow17Params.parse_obj / SacSmaParams.parse_obj on the text of a parameter file
ParseParams ==
    /\ namelist # Unset /\ namelist.parsed = Pending
    /\ namelist' = [namelist EXCEPT !.parsed = _parse(namelist.cls, namelist.lines)]
    /\ UNCHANGED <<restart, hfVars, rtVars, targetVars, goVars, cfgVars>>

NextParams == ParseParams

SpecParams == InitParams /\ [][NextParams]_vars

\* The required fields no line of the file names.
AbsentFields ==
    RequiredFields(namelist.cls)
        \ {namelist.lines[k].field : k \in 1..Len(namelist.lines)}

\* C29: whenever a required field (for Snow17 also one of adc1..adc11) is absent from
\* the text, also when another field is there twice, _parse raises a RuntimeError that
\* lists the missing fields; it never returns an object whose adc entry was absent and
\* stayed 0.0.
C29_MissingFieldRaisesRuntimeError ==
    (namelist # Unset /\ namelist.parsed # Pending) =>
        /\ AbsentFields # {} =>
               /\ namelist.parsed.kind = "raise"
               /\ namelist.parsed.error.type = "RuntimeError"
               /\ namelist.parsed.error.arg = AbsentFields
        /\ (namelist.cls = "Snow17Params" /\ namelist.parsed.kind = "return") =>
               \A i \in 1..AdcCount :
                   <<"adc", i>> \in AbsentFields => namelist.parsed.value.adc[i] # 0

(***************************************************************************)
(* Namelist files of Snow17 and Sac-SMA: from_namelist, from_namelist_str, *)
(* to_namelist_str                                                         *)
(***************************************************************************)

MaxHour == 1

\* A datetime of January 2020: its day, hour and minute.
Datetimes == [day : 1..2, hour : 0..MaxHour, minute : {0, 30}]

\* d.strftime("%Y%m%d%H") read as an integer
Strftime(d) == 2020010000 + d.day * 100 + d.hour

\* datetime.strptime(value, "%Y%m%d%H") on ten digits
Strptime(digits) == [day |-> (digits \div 100) % 100, hour |-> digits % 100, minute |-> 0]

\* Snow17._validate_datetime, SacSma._validate_datetime
_validate_datetime(value) ==
    LET v == IF value.type = "int" THEN [value EXCEPT !.type = "str"] ELSE value
    IN  IF v.type = "datetime" THEN Return(v.datetime)
        ELSE IF v.form = "YYYYMMDDHH" THEN Return(Strptime(v.digits))
        ELSE IF v.form = "ISO8601" THEN Return(v.datetime)
        ELSE Raise(Err("ValueError",
                       "expected string datetime in format YYYYMMDDHH (%Y%m%d%H) or ISO8601",
                       v, "_validate_datetime"))

ParamFileField(cls) == IF cls = "Snow17" THEN "snow17_param_file" ELSE "sac_param_file"
ControlField(cls) == IF cls = "Snow17" THEN "snow17_control" ELSE "sac_control"
DeclaredFields(cls) == {ParamFileField(cls), "start_datehr", "end_datehr", "model_timestep"}

\* cls.parse_obj(obj) on the mapping dict(obj): the declared fields are validated,
\* the other keys are left out, a required field that is not a key is an error.
parse_obj(cls, obj) ==
    LET required == {ParamFileField(cls), "start_datehr", "end_datehr"}
    IN  IF required \ DOMAIN obj # {}
        THEN Raise(Err("ValidationError", "field required", required \ DOMAIN obj,
                       "parse_obj"))
        ELSE LET start == _validate_datetime(obj.start_datehr)
                 stop == _validate_datetime(obj.end_datehr)
             IN  IF start.kind = "raise"
                 THEN Raise(Err("ValidationError", start.error.msg, "start_datehr",
                                "parse_obj"))
                 ELSE IF stop.kind = "raise"
                 THEN Raise(Err("ValidationError", stop.error.msg, "end_datehr",
                                "parse_obj"))
                 ELSE Return([f \in DeclaredFields(cls) |->
                                 IF f = "start_datehr" THEN [type |-> "datetime",
                                                             datetime |-> start.value]
                                 ELSE IF f = "end_datehr" THEN [type |-> "datetime",
                                                                datetime |-> stop.value]
                                 ELSE obj[f]])

\* from_namelist_str(text, wrapper) of ngen.init_config: the wrapper object, whose one
\* field holds the control group validated as the class with the ngen defaults.
DeserializeWrapper(cls, text) ==
    LET control == parse_obj(cls, text)
    IN  IF control.kind = "raise" THEN control
        ELSE Return([f \in {ControlField(cls)} |-> control.value])

\* o = from_namelist_str(p.read_text(), wrapper); return cls.parse_obj(o)
from_namelist(cls, text) ==
    LET o == DeserializeWrapper(cls, text)
    IN  IF o.kind = "raise" THEN o ELSE parse_obj(cls, o.value)

\* o = from_namelist_str(s, wrapper); return cls.parse_obj(o.<control>)
from_namelist_str(cls, text) ==
    LET o == DeserializeWrapper(cls, text)
    IN  IF o.kind = "raise" THEN o ELSE parse_obj(cls, o.value[ControlField(cls)])

\* to_namelist_str: the fields through the field serializers, the datetimes as the
\* integer YYYYMMDDHH.
to_namelist_str(cls, self) ==
    [f \in DeclaredFields(cls) |->
        IF f \in {"start_datehr", "end_datehr"}
        THEN [type |-> "int", form |-> "YYYYMMDDHH", digits |-> Strftime(self[f].datetime)]
        ELSE self[f]]

\* What a namelist gives for a datetime: the integer, an ISO8601 string, another string.
DatetimeTexts ==
    {[type |-> "int", form |-> "YYYYMMDDHH", digits |-> Strftime(d)] :
        d \in {e \in Datetimes : e.minute = 0 /\ e.day = 1}}
    \cup {[type |-> "str", form |-> "ISO8601", datetime |-> d] :
            d \in {e \in Datetimes : e.day = 2}}
    \cup {[type |-> "str", form |-> "other"]}

NamelistTexts(cls) ==
    {[f \in DeclaredFields(cls) |->
        IF f = "start_datehr" THEN a
        ELSE IF f = "end_datehr" THEN b
        ELSE IF f = "model_timestep" THEN 3600
        ELSE "params.txt"] : a \in DatetimeTexts, b \in DatetimeTexts}

InitNamelist ==
    /\ namelist \in UNION {[cls : {cls}, text : NamelistTexts(cls), from_file : {Pending},
                            from_str : {Pending}, written : {Pending}, reread : {Pending}] :
                              cls \in {"Snow17", "SacSma"}}
    /\ restart = Unset
    /\ IdleHF
    /\ IdleRT
    /\ IdleGO
    /\ IdleTargets
    /\ IdleCfg

FromNamelist ==
    /\ namelist # Unset /\ namelist.from_file = Pending
    /\ namelist' = [namelist EXCEPT !.from_file = from_namelist(namelist.cls, namelist.text)]
    /\ UNCHANGED <<restart, hfVars, rtVars, targetVars, goVars, cfgVars>>

FromNamelistStr ==
    /\ namelist # Unset /\ namelist.from_str = Pending
    /\ namelist' = [namelist EXCEPT
                       !.from_str = from_namelist_str(namelist.cls, namelist.text)]
    /\ UNCHANGED <<restart, hfVars, rtVars, targetVars, goVars, cfgVars>>

\* to_namelist_str on the object from_namelist_str built
ToNamelistStr ==
    /\ namelist # Unset /\ namelist.from_str.kind = "return" /\ namelist.written = Pending
    /\ namelist' = [namelist EXCEPT
                       !.written = Return(to_namelist_str(namelist.cls,
                                                          namelist.from_str.value))]
    /\ UNCHANGED <<restart, hfVars, rtVars, targetVars, goVars, cfgVars>>

\* from_namelist_str on the text to_namelist_str wrote
RereadNamelist ==
    /\ namelist # Unset /\ namelist.written # Pending /\ namelist.reread = Pending
    /\ namelist' = [namelist EXCEPT
                       !.reread = from_namelist_str(namelist.cls, namelist.written.value)]
    /\ UNCHANGED <<restart, hfVars, rtVars, targetVars, goVars, cfgVars>>

NextNamelist == FromNamelist \/ FromNamelistStr \/ ToNamelistStr \/ RereadNamelist

SpecNamelist == InitNamelist /\ [][NextNamelist]_vars

\* C30: from_namelist and from_namelist_str of one namelist give equal objects whenever
\* either of them accepts it, and the object read back from what to_namelist_str wrote
\* is equal to the object written, its start and end datetimes included.
C30_NamelistReadersAgreeAndRoundTrip ==
    namelist # Unset =>
        /\ (/\ namelist.from_file # Pending /\ namelist.from_str # Pending
            /\ "return" \in {namelist.from_file.kind, namelist.from_str.kind})
               => namelist.from_file = namelist.from_str
        /\ namelist.reread # Pending => namelist.reread = namelist.from_str

====
